---- MODULE Spec2Model ----
(***************************************************************************)
(* Fleet planner of src/10.py: road map, reservation table, space-time A*, *)
(* command translator, fleet state store, allocator loop and the HTTP      *)
(* request handlers.                                                       *)
(*                                                                         *)
(* Cells are the two-digit names of the map read as integers ('81' is 81): *)
(* the code orders cell names only as two-digit strings (heap tuples,      *)
(* candidates.sort()), which is the integer order, and build_coords reads  *)
(* the digits with int().  Python None is the string "none".               *)
(*                                                                         *)
(* Times inside the planner are kept in tenths of a second, because the    *)
(* code adds the wait penalty 1.1 to the same number g that it uses as the *)
(* elapsed time (current_time = t0 + g).                                   *)
(*                                                                         *)
(* Not modelled: last_seen / submitted_ts / ts timestamps, the robot       *)
(* colour, plan_str (a rendering of plan), the step_index progress report  *)
(* (requests are taken without step_index) and the reports log of a job    *)
(* (append-only, never read by the code).                                  *)
(***************************************************************************)
EXTENDS Integers, Sequences, FiniteSets, TLC

None == "none"
\* None where a job id is expected, and None where a cell name is expected.
NoJob == 0
NoCell == 0

(***************************************************************************)
(* Bounds of the model.                                                    *)
(***************************************************************************)
\* Largest value of the wall clock int(time.time()), counted from 0.
MaxTime == 1
\* Largest number of entries of the job table.
MaxJobs == 2
\* Search depth handed to the planner; the source's default is 60.
MaxDepth == 3
\* The longest path (in cells) the translator is applied to.
MaxPathLen == 4
\* Robot ids that clients use.
RobotIds == {"r1", "r2"}

(***************************************************************************)
(* 1. Map graph                                                            *)
(***************************************************************************)
GRAPH ==
  (11 :> [s |-> 21]) @@
  (12 :> [s |-> 22]) @@
  (13 :> [s |-> 23]) @@
  (15 :> [s |-> 25]) @@
  (21 :> [n |-> 11, e |-> 22, s |-> 31]) @@
  (22 :> [n |-> 12, s |-> 32, w |-> 21, e |-> 23]) @@
  (23 :> [n |-> 13, s |-> 33, w |-> 22]) @@
  (24 :> [e |-> 25, s |-> 34]) @@
  (25 :> [n |-> 15, s |-> 35, e |-> 26, w |-> 24]) @@
  (26 :> [w |-> 25]) @@
  (31 :> [n |-> 21, e |-> 32]) @@
  (32 :> [n |-> 22, e |-> 33, w |-> 31]) @@
  (33 :> [n |-> 23, s |-> 43, e |-> 34, w |-> 32]) @@
  (34 :> [n |-> 24, s |-> 44, e |-> 35, w |-> 33]) @@
  (35 :> [w |-> 34, n |-> 25, e |-> 36, s |-> 45]) @@
  (36 :> [w |-> 35, s |-> 46]) @@
  (42 :> [s |-> 52]) @@
  (43 :> [n |-> 33, s |-> 53, e |-> 44]) @@
  (44 :> [w |-> 43, n |-> 34, e |-> 45]) @@
  (45 :> [w |-> 44, n |-> 35, s |-> 65, e |-> 46]) @@
  (46 :> [w |-> 45, n |-> 36]) @@
  (51 :> [e |-> 52]) @@
  (52 :> [s |-> 62, e |-> 53, n |-> 42, w |-> 51]) @@
  (53 :> [w |-> 52, n |-> 43, s |-> 63]) @@
  (56 :> [s |-> 66]) @@
  (62 :> [n |-> 52]) @@
  (63 :> [s |-> 73, e |-> 64, n |-> 53]) @@
  (64 :> [w |-> 63, e |-> 65, s |-> 84]) @@
  (65 :> [n |-> 45, s |-> 75, e |-> 66, w |-> 64]) @@
  (66 :> [w |-> 65, n |-> 56, s |-> 76]) @@
  (71 :> [s |-> 81, e |-> 72]) @@
  (72 :> [s |-> 82, e |-> 73, w |-> 71]) @@
  (73 :> [w |-> 72, s |-> 83, n |-> 63]) @@
  (75 :> [n |-> 65, s |-> 85, e |-> 76]) @@
  (76 :> [w |-> 75, n |-> 66, s |-> 86]) @@
  (81 :> [n |-> 71]) @@
  (82 :> [n |-> 72]) @@
  (83 :> [n |-> 73]) @@
  (84 :> [n |-> 64]) @@
  (85 :> [n |-> 75]) @@
  (86 :> [n |-> 76])

PARKING_NODES == {81, 82, 83, 84, 85, 86, 11, 12, 13, 15, 26, 31, 46, 51, 56}

MAX_SEARCH_DEPTH == MaxDepth

(***************************************************************************)
(* 3. Helpers / pathfinding / reservations                                 *)
(* S is the store: [robots, robot_order, jobs, job_queue, reservations].   *)
(* A value that several steps of a function use is handed on as an         *)
(* operator argument, so a function of the code is a short chain of        *)
(* operators.                                                              *)
(***************************************************************************)
Abs(x) == IF x < 0 THEN -x ELSE x

\* coords[n] = (int(n[1]), int(n[0]))
build_coords(graph) == [n \in DOMAIN graph |-> <<n % 10, n \div 10>>]

NODE_COORDS == build_coords(GRAPH)

\* coords.get(a, (0,0))
CoordsGet(coords, a) == IF a \in DOMAIN coords THEN coords[a] ELSE <<0, 0>>

\* abs(ax-bx) + abs(ay-by)
ManhattanOf(ca, cb) == Abs(ca[1] - cb[1]) + Abs(ca[2] - cb[2])

get_manhattan_dist(a, b) ==
  ManhattanOf(CoordsGet(NODE_COORDS, a), CoordsGet(NODE_COORDS, b))

\* reservations.get((node, t)) for a time t given in tenths: the keys of the
\* table are integer seconds, so a time with a fractional part finds nothing.
ReservationOwner(reservations, node, t10) ==
  IF t10 % 10 = 0 /\ <<node, t10 \div 10>> \in DOMAIN reservations
  THEN reservations[<<node, t10 \div 10>>]
  ELSE None

\* is_safe without its second test: a standing robot blocks nothing.
IdleRobotNowhere(S, node, rid) == FALSE

\* The second test of is_safe: another robot is idle on node.
IdleRobotOn(S, node, rid) ==
  \E orid \in DOMAIN S.robots :
    /\ orid # rid
    /\ S.robots[orid].status = "idle"
    /\ S.robots[orid].node = node

\* The first test of is_safe: owner and owner != rid.
OwnedByOther(owner, rid) == owner # None /\ owner # rid

is_safe(S, node, t10, rid) ==
  IF OwnedByOther(ReservationOwner(S.reservations, node, t10), rid)
  THEN FALSE
  ELSE ~ IdleRobotOn(S, node, rid)

\* Order of Python lists of cell names.
RECURSIVE ListLess(_, _)
ListLess(p, q) ==
  IF p = <<>> THEN q # <<>>
  ELSE IF q = <<>> THEN FALSE
  ELSE IF Head(p) # Head(q) THEN Head(p) < Head(q)
  ELSE ListLess(Tail(p), Tail(q))

\* Order of the heap tuples (f, g, node, path).
EntryLess(a, b) ==
  \/ a.f < b.f
  \/ a.f = b.f /\ a.g < b.g
  \/ a.f = b.f /\ a.g = b.g /\ a.node < b.node
  \/ a.f = b.f /\ a.g = b.g /\ a.node = b.node /\ ListLess(a.path, b.path)

\* heapq.heappop: the least tuple of the heap.
HeapPop(open_set) == CHOOSE e \in open_set : \A o \in open_set \ {e} : EntryLess(e, o)

\* ng = g + 1, and ng += 1.1 for a wait, in tenths.
StepCost(g, curr, nb) == g + 10 + (IF nb = curr THEN 11 ELSE 0)

\* The tuple (ng + h, ng, nb, path + [nb]) pushed for neighbour nb of e.
HeapEntry(e, nb, end) ==
  [f |-> StepCost(e.g, e.node, nb) + 10 * get_manhattan_dist(nb, end),
   g |-> StepCost(e.g, e.node, nb),
   node |-> nb,
   path |-> Append(e.path, nb)]

\* The neighbour list taken for the whole key set of the graph: every cell
\* counts as one step away.
NeighborsAnyCell(graph, curr) == DOMAIN graph

\* list(graph[curr].values()) + [curr]
Neighbors(graph, curr) == {graph[curr][d] : d \in DOMAIN graph[curr]} \cup {curr}

\* The neighbours the for loop pushes: not visited at nt and safe at nt.
Pushed(S, neighbors, visited, nt, rid) ==
  {nb \in neighbors : <<nb, nt>> \notin visited /\ is_safe(S, nb, nt, rid)}

\* The while loop of space_time_a_star.  The heap is the set of its tuples
\* (no tuple is pushed twice); f and g are in tenths.  The result is
\* [kind |-> "path", path |-> ...], [kind |-> "none"] for return None, or
\* [kind |-> "error"] for the KeyError of graph[curr].
RECURSIVE AStarLoop(_, _, _, _, _, _, _, _)

\* The for loop over the neighbours of the popped tuple e.
AStarPush(S, graph, end, t0, rid, max_time, rest, visited, e, nt, pushed) ==
  AStarLoop(S, graph, end, t0, rid, max_time,
            rest \cup {HeapEntry(e, nb, end) : nb \in pushed},
            visited \cup {<<nb, nt>> : nb \in pushed})

\* The body of the while loop with the depth test one step late
\* (g >= max_time + 1).
AStarVisitOneDeeper(S, graph, end, t0, rid, max_time, rest, visited, e) ==
  IF e.node = end THEN [kind |-> "path", path |-> e.path]
  ELSE IF e.g >= (max_time + 1) * 10
    THEN AStarLoop(S, graph, end, t0, rid, max_time, rest, visited)
  ELSE IF e.node \notin DOMAIN graph THEN [kind |-> "error", path |-> <<>>]
  ELSE AStarPush(S, graph, end, t0, rid, max_time, rest, visited, e,
                 t0 * 10 + e.g + 10,
                 Pushed(S, Neighbors(graph, e.node), visited, t0 * 10 + e.g + 10, rid))

\* The body of the while loop for the popped tuple e.
AStarVisit(S, graph, end, t0, rid, max_time, rest, visited, e) ==
  IF e.node = end THEN [kind |-> "path", path |-> e.path]
  ELSE IF e.g >= max_time * 10
    THEN AStarLoop(S, graph, end, t0, rid, max_time, rest, visited)
  ELSE IF e.node \notin DOMAIN graph THEN [kind |-> "error", path |-> <<>>]
  ELSE AStarPush(S, graph, end, t0, rid, max_time, rest, visited, e,
                 t0 * 10 + e.g + 10,
                 Pushed(S, Neighbors(graph, e.node), visited, t0 * 10 + e.g + 10, rid))

\* heappop, then the body.
AStarPop(S, graph, end, t0, rid, max_time, open_set, visited, e) ==
  AStarVisit(S, graph, end, t0, rid, max_time, open_set \ {e}, visited, e)

AStarLoop(S, graph, end, t0, rid, max_time, open_set, visited) ==
  IF open_set = {} THEN [kind |-> "none", path |-> <<>>]
  ELSE AStarPop(S, graph, end, t0, rid, max_time, open_set, visited, HeapPop(open_set))

space_time_a_star(S, graph, start, end, t0, rid, max_time) ==
  AStarLoop(S, graph, end, t0, rid, max_time,
            {[f |-> 0, g |-> 0, node |-> start, path |-> <<start>>]}, {})

\* The table without the entries owned by rid
\* (keys = [k for k,v in reservations.items() if v == rid]; del each).
ReleaseOwner(reservations, rid) ==
  [k \in {x \in DOMAIN reservations : reservations[x] # rid} |-> reservations[k]]

\* The keys (path[i], t0 + i) of a trajectory.
TrajectoryKeys(path, t0) == {<<path[i], t0 + i - 1>> : i \in 1..Len(path)}

\* The table kept, with every key of written set to rid.
WriteKeys(kept, written, rid) ==
  [k \in DOMAIN kept \cup written |-> IF k \in written THEN rid ELSE kept[k]]

reserve_path_trajectory(reservations, path, t0, rid) ==
  WriteKeys(ReleaseOwner(reservations, rid), TrajectoryKeys(path, t0), rid)

\* Candidates that ignore who stands on a parking cell.
ParkingCellsAll(S) == PARKING_NODES

\* The candidates of find_nearest_parking: parking cells without an idle robot.
ParkingCandidates(S) ==
  {p \in PARKING_NODES :
     ~ \E r \in DOMAIN S.robots : S.robots[r].node = p /\ S.robots[r].status = "idle"}

\* (distance, name) of p sorts before that of q.
\* The order that puts the larger name first among cells at one distance.
ParkingBeforeLargerName(node, p, q) ==
  \/ get_manhattan_dist(node, p) < get_manhattan_dist(node, q)
  \/ get_manhattan_dist(node, p) = get_manhattan_dist(node, q) /\ p > q

ParkingBefore(node, p, q) ==
  \/ get_manhattan_dist(node, p) < get_manhattan_dist(node, q)
  \/ get_manhattan_dist(node, p) = get_manhattan_dist(node, q) /\ p < q

\* candidates.sort(); candidates[0][1]
NearestOf(node, candidates) ==
  IF candidates = {} THEN NoCell
  ELSE CHOOSE p \in candidates : \A q \in candidates \ {p} : ParkingBefore(node, p, q)

find_nearest_parking(S, node) == NearestOf(node, ParkingCandidates(S))

(***************************************************************************)
(* 4. Instruction generation helpers                                       *)
(***************************************************************************)
CLOCKWISE == [n |-> "e", e |-> "s", s |-> "w", w |-> "n"]
CCW == [v \in {"n", "e", "s", "w"} |-> CHOOSE k \in DOMAIN CLOCKWISE : CLOCKWISE[k] = v]
OPP == [n |-> "s", s |-> "n", e |-> "w", w |-> "e"]

\* The loop of direction_between over the edges GRAPH[a].
DirectionIn(edges, b) ==
  IF \E d \in DOMAIN edges : edges[d] = b
  THEN CHOOSE d \in DOMAIN edges : edges[d] = b
  ELSE None

direction_between(a, b) == DirectionIn(GRAPH[a], b)

\* A translation that never turns.
InstrAlwaysStraight(cur, target) == "S"

instruction_from_dirs(cur, target) ==
  IF cur = target THEN "S"
  ELSE IF CLOCKWISE[cur] = target THEN "R"
  ELSE IF CCW[cur] = target THEN "L"
  ELSE IF OPP[cur] = target THEN "U"
  ELSE "S"

\* A translator that emits U without turning its running heading round.
TurnForgetsUTurn(cur, cmd) ==
  [cmd |-> cmd,
   cur |-> CASE cmd = "R" -> CLOCKWISE[cur]
             [] cmd = "L" -> CCW[cur]
             [] OTHER -> cur]

\* The heading after command cmd (lines 179-186).
Turn(cur, cmd) ==
  [cmd |-> cmd,
   cur |-> CASE cmd = "R" -> CLOCKWISE[cur]
             [] cmd = "L" -> CCW[cur]
             [] cmd = "U" -> OPP[cur]
             [] OTHER -> cur]

\* The body of the loop of path_to_instr_list once target is known.
InstrFor(cur, target) ==
  IF target = None
  THEN [cmd |-> "U", cur |-> IF cur \in DOMAIN OPP THEN OPP[cur] ELSE cur]
  ELSE Turn(cur, instruction_from_dirs(cur, target))

\* One iteration of the loop of path_to_instr_list: the command for the step
\* a -> b taken with heading cur, and the heading after it.
InstrStep(a, b, cur) == InstrFor(cur, direction_between(a, b))

\* The loop of path_to_instr_list from index i on (i counts from 1).
RECURSIVE InstrLoop(_, _, _, _)

InstrNext(path, i, instrs, st) ==
  InstrLoop(path, i + 1, st.cur, Append(instrs, st.cmd))

InstrLoop(path, i, cur, instrs) ==
  IF i > Len(path) - 1 THEN [instrs |-> instrs, cur |-> cur]
  ELSE InstrNext(path, i, instrs, InstrStep(path[i], path[i + 1], cur))

\* Returns [instrs, cur]: the command list and the final heading.
path_to_instr_list(path, initial_dir) == InstrLoop(path, 1, initial_dir, <<>>)

\* instr1 + instr2, with leg 2 translated from the heading leg 1 ends with.
ChainInstr(i1, path2) == i1.instrs \o path_to_instr_list(path2, i1.cur).instrs

\* Two legs that are both translated from the heading the robot starts with.
TwoLegInstrRestart(path1, path2, start_dir) ==
  path_to_instr_list(path1, start_dir).instrs \o path_to_instr_list(path2, start_dir).instrs

TwoLegInstr(path1, path2, start_dir) ==
  ChainInstr(path_to_instr_list(path1, start_dir), path2)

\* A plan without its final step.
BuildPlanNoDone(path, instr_list) ==
  [i \in 1..(Len(path) - 1) |-> <<path[i], instr_list[i]>>]

build_plan_array(path, instr_list) ==
  [i \in 1..Len(path) |-> IF i < Len(path) THEN <<path[i], instr_list[i]>>
                          ELSE <<path[i], "D">>]

\* The plan the allocator builds inline, with its fallback branch.
AllocatorPlan(full_path, full_instr) ==
  IF Len(full_path) - 1 = Len(full_instr)
  THEN [i \in 1..Len(full_path) |-> IF i < Len(full_path)
                                    THEN <<full_path[i], full_instr[i]>>
                                    ELSE <<full_path[i], "D">>]
  ELSE << <<full_path[Len(full_path)], "D">> >>

\* dict.get(cur, cur)
GetOr(table, cur) == IF cur \in DOMAIN table THEN table[cur] ELSE cur

\* apply_turn of the robot simulator (src/sim4.py): the heading after cmd.
apply_turn(cur, cmd) ==
  CASE cmd = "S" -> cur
    [] cmd = "R" -> GetOr(CLOCKWISE, cur)
    [] cmd = "L" -> GetOr(CCW, cur)
    [] cmd = "U" -> GetOr(OPP, cur)
    [] OTHER -> cur

\* apply_instrs_to_dir (src/7.py): the heading after the commands instrs.
RECURSIVE apply_instrs_to_dir(_, _)
apply_instrs_to_dir(initial_dir, instrs) ==
  IF instrs = <<>> THEN initial_dir
  ELSE apply_instrs_to_dir(
         CASE Head(instrs) = "R" -> GetOr(CLOCKWISE, initial_dir)
           [] Head(instrs) = "L" -> GetOr(CCW, initial_dir)
           [] Head(instrs) = "U" -> GetOr(OPP, initial_dir)
           [] OTHER -> initial_dir,
         Tail(instrs))

\* The job dict create_system_job stores under a fresh id jid.  path and
\* plan are <<>> while the dict has no such key.  t0 is not a field of the
\* code's dict: it records the start time the job's trajectory was
\* committed from (-1 while there is none).
create_system_job(jid, pickup, drop, rid) ==
  [id |-> jid, pickup |-> pickup, drop |-> drop,
   status |-> IF rid # None THEN "assigned" ELSE "queued",
   assigned_robot |-> rid, path |-> <<>>, plan |-> <<>>, t0 |-> -1]

(***************************************************************************)
(* 5. Allocator                                                            *)
(***************************************************************************)
\* The dict a robot is registered with (it has no current_job key).
NewRobot(node, direction) ==
  [status |-> "idle", node |-> node, dir |-> direction,
   current_path |-> <<>>, current_job |-> NoJob]

\* A robot set idle whose current_job is not popped.
RobotIdleKeepsJob(r) ==
  [r EXCEPT !.status = "idle", !.current_path = <<>>]

\* status = 'idle'; current_path = []; pop('current_job', None)
RobotIdle(r) ==
  [r EXCEPT !.status = "idle", !.current_path = <<>>, !.current_job = NoJob]

\* status = 'busy'; current_job = jid; current_path = path
RobotBusy(r, jid, path) ==
  [r EXCEPT !.status = "busy", !.current_job = jid, !.current_path = path]

\* idle = [r for r, info in robots.items() if info.get('status') == 'idle']
IdleRobots(S) == SelectSeq(S.robot_order, LAMBDA r : S.robots[r].status = "idle")

\* idle[0] without the sort.
FirstIdle(S, idle, pickup) == idle[1]

\* idle.sort(key = distance to pickup); idle[0].  The sort is stable, so the
\* result is the first robot of the list at the least distance.
NearestIdle(S, idle, pickup) ==
  idle[CHOOSE i \in 1..Len(idle) :
         /\ \A k \in 1..Len(idle) :
              get_manhattan_dist(S.robots[idle[i]].node, pickup)
                <= get_manhattan_dist(S.robots[idle[k]].node, pickup)
         /\ \A k \in 1..(i - 1) :
              get_manhattan_dist(S.robots[idle[k]].node, pickup)
                > get_manhattan_dist(S.robots[idle[i]].node, pickup)]

\* The list q without its element at index i.
RemoveAt(q, i) == SubSeq(q, 1, i - 1) \o SubSeq(q, i + 1, Len(q))

\* list.remove(x)
ListRemove(q, x) ==
  RemoveAt(q, CHOOSE k \in 1..Len(q) : q[k] = x /\ \A m \in 1..(k - 1) : q[m] # x)

\* Lines 253-272: the plan, the job, the queue and the robot.
AllocatorAssign(S, now, jid, rid, full_path, full_instr) ==
  [S EXCEPT
     !.jobs[jid] = [@ EXCEPT !.assigned_robot = rid, !.status = "assigned",
                             !.path = full_path,
                             !.plan = AllocatorPlan(full_path, full_instr),
                             !.t0 = now],
     !.job_queue = ListRemove(S.job_queue, jid),
     !.robots[rid] = RobotBusy(@, jid, full_path)]

\* Line 244: the reservation of the full path.
AllocatorReserve(S, now, rid, full_path) ==
  [S EXCEPT !.reservations =
     reserve_path_trajectory(S.reservations, full_path, now, rid)]

\* The commit of lines 243-272.
AllocatorCommit(S, now, jid, rid, path1, path2) ==
  AllocatorAssign(AllocatorReserve(S, now, rid, path1 \o Tail(path2)),
                  now, jid, rid, path1 \o Tail(path2),
                  TwoLegInstr(path1, path2, S.robots[rid].dir))

\* alive is FALSE when the planner raised, which ends the allocator thread.
AllocatorLeg2(S, now, jid, rid, path1, path2) ==
  CASE path2.kind = "error" -> [S |-> S, alive |-> FALSE]
    [] path2.kind = "none" -> [S |-> S, alive |-> TRUE]
    [] OTHER -> [S |-> AllocatorCommit(S, now, jid, rid, path1, path2.path),
                 alive |-> TRUE]

\* An allocator that gives up a job whose first leg has no path: the job
\* leaves the queue.
AllocatorLeg1Drops(S, now, jid, rid, path1) ==
  CASE path1.kind = "error" -> [S |-> S, alive |-> FALSE]
    [] path1.kind = "none" ->
         [S |-> [S EXCEPT !.job_queue = ListRemove(S.job_queue, jid)], alive |-> TRUE]
    [] OTHER ->
         AllocatorLeg2(S, now, jid, rid, path1.path,
                       space_time_a_star(S, GRAPH, S.jobs[jid].pickup, S.jobs[jid].drop,
                                         now + Len(path1.path) - 1, rid,
                                         MAX_SEARCH_DEPTH))

AllocatorLeg1(S, now, jid, rid, path1) ==
  CASE path1.kind = "error" -> [S |-> S, alive |-> FALSE]
    [] path1.kind = "none" -> [S |-> S, alive |-> TRUE]
    [] OTHER ->
         AllocatorLeg2(S, now, jid, rid, path1.path,
                       space_time_a_star(S, GRAPH, S.jobs[jid].pickup, S.jobs[jid].drop,
                                         now + Len(path1.path) - 1, rid,
                                         MAX_SEARCH_DEPTH))

\* The body of "for job in pending" for robot rid = idle[0].
AllocatorFor(S, now, jid, rid) ==
  AllocatorLeg1(S, now, jid, rid,
                space_time_a_star(S, GRAPH, S.robots[rid].node, S.jobs[jid].pickup,
                                  now, rid, MAX_SEARCH_DEPTH))

\* The body of "for job in pending" for one job, once an idle robot exists.
AllocatorJob(S, now, jid) ==
  AllocatorFor(S, now, jid, NearestIdle(S, IdleRobots(S), S.jobs[jid].pickup))

RECURSIVE AllocatorPending(_, _, _)

AllocatorNext(now, pending, r) ==
  IF r.alive THEN AllocatorPending(r.S, now, Tail(pending)) ELSE r

AllocatorPending(S, now, pending) ==
  IF pending = <<>> THEN [S |-> S, alive |-> TRUE]
  ELSE IF IdleRobots(S) = <<>> THEN [S |-> S, alive |-> TRUE]
  ELSE AllocatorNext(now, pending, AllocatorJob(S, now, Head(pending)))

\* The cleanup with k[1] <= current_t: the entries of the current second go
\* with the old ones.
ReleaseThroughTime(reservations, current_t) ==
  [k \in {x \in DOMAIN reservations : x[2] > current_t} |-> reservations[k]]

\* old = [k for k in reservations if k[1] < current_t]; del each
ReleaseBeforeTime(reservations, current_t) ==
  [k \in {x \in DOMAIN reservations : x[2] >= current_t} |-> reservations[k]]

\* pending = [j for j in job_queue if j['status'] == 'queued'], then the loop.
AllocatorDrain(S, current_t) ==
  AllocatorPending(S, current_t,
                   SelectSeq(S.job_queue, LAMBDA j : S.jobs[j].status = "queued"))

\* One iteration of the while loop of allocator_loop at clock value current_t.
allocator_loop(S, current_t) ==
  AllocatorDrain([S EXCEPT !.reservations = ReleaseBeforeTime(@, current_t)],
                 current_t)

(***************************************************************************)
(* 6. HTTP API.  Every handler maps the store to [S, code, job]: the store *)
(* it leaves, the HTTP status, and the job id it answers with (if any).    *)
(***************************************************************************)
Reply(S, code, job) == [S |-> S, code |-> code, job |-> job]

\* Lines 311-327 of request_path: the robot, the job and its plan.
RequestPathAssign(S, now, rid, pickup, drop, jid, full_path, full_instr) ==
  [S EXCEPT
     !.robots[rid] = RobotBusy(@, jid, full_path),
     !.jobs = Append(@, [create_system_job(jid, pickup, drop, rid)
                           EXCEPT !.path = full_path,
                                  !.plan = build_plan_array(full_path, full_instr),
                                  !.t0 = now])]

\* The success branch of request_path (lines 308-331).
RequestPathCommit(S, now, rid, facing, pickup, drop, path_to_pickup, path_pickup_to_drop) ==
  RequestPathAssign(
    [S EXCEPT !.reservations =
       reserve_path_trajectory(@, path_to_pickup \o Tail(path_pickup_to_drop), now, rid)],
    now, rid, pickup, drop, Len(S.jobs) + 1,
    path_to_pickup \o Tail(path_pickup_to_drop),
    TwoLegInstr(path_to_pickup, path_pickup_to_drop, facing))

RequestPathLeg2(S, now, rid, facing, pickup, drop, p1, p2) ==
  IF p2.kind # "path" THEN Reply(S, 500, NoJob)
  ELSE Reply(RequestPathCommit(S, now, rid, facing, pickup, drop, p1, p2.path),
             200, Len(S.jobs) + 1)

RequestPathLeg1(S, now, rid, facing, pickup, drop, p1) ==
  IF p1.kind # "path" THEN Reply(S, 500, NoJob)
  ELSE RequestPathLeg2(S, now, rid, facing, pickup, drop, p1.path,
                       space_time_a_star(S, GRAPH, pickup, drop,
                                         now + Len(p1.path) - 1, rid, MAX_SEARCH_DEPTH))

\* request_path after lines 296-297 stored node and facing.
RequestPathFrom(S, now, rid, node, facing, pickup, drop) ==
  RequestPathLeg1(S, now, rid, facing, pickup, drop,
                  space_time_a_star(S, GRAPH, node, pickup, now, rid, MAX_SEARCH_DEPTH))

request_path(S, now, rid, node, facing, pickup, drop) ==
  IF rid \notin DOMAIN S.robots THEN Reply(S, 400, NoJob)
  ELSE RequestPathFrom([S EXCEPT !.robots[rid].node = node, !.robots[rid].dir = facing],
                       now, rid, node, facing, pickup, drop)

register_robot(S, rid, node, direction) ==
  Reply([S EXCEPT
           !.robots = (rid :> NewRobot(node, direction)) @@ S.robots,
           !.robot_order = IF rid \in DOMAIN S.robots THEN @ ELSE Append(@, rid)],
        200, NoJob)

submit_job(S, pickup, drop) ==
  IF pickup = NoCell \/ drop = NoCell THEN Reply(S, 400, NoJob)
  ELSE Reply([S EXCEPT
                !.job_queue = Append(@, Len(S.jobs) + 1),
                !.jobs = Append(@, create_system_job(Len(S.jobs) + 1, pickup, drop, None))],
             200, Len(S.jobs) + 1)

\* A poll that answers a robot it does not know with "no job".
PollAnyone(S, rid) ==
  Reply(S, 200, IF rid \in DOMAIN S.robots THEN S.robots[rid].current_job ELSE NoJob)

poll_task(S, rid) ==
  IF rid \notin DOMAIN S.robots THEN Reply(S, 400, NoJob)
  ELSE Reply(S, 200, S.robots[rid].current_job)

\* path[path.index(node):] when node is in path
ShrinkPath(path, node) ==
  IF \E i \in 1..Len(path) : path[i] = node
  THEN SubSeq(path, CHOOSE i \in 1..Len(path) :
                      path[i] = node /\ \A k \in 1..(i - 1) : path[k] # node,
              Len(path))
  ELSE path

\* Lines 431-441: the parking path is reserved and published.
AutoParkCommit(S, now, rid, jid, park_path) ==
  [S EXCEPT
     !.reservations = reserve_path_trajectory(@, park_path, now, rid),
     !.jobs[jid] = [@ EXCEPT
                      !.plan = build_plan_array(
                                 park_path,
                                 path_to_instr_list(park_path, S.robots[rid].dir).instrs),
                      !.path = park_path, !.t0 = now],
     !.robots[rid] = RobotBusy(@, jid, park_path)]

\* Lines 430-443: S already holds the parking job jid.
AutoParkPlan(S, now, rid, jid, park_path) ==
  CASE park_path.kind = "error" -> Reply(S, 500, NoJob)
    [] park_path.kind = "none" ->
         Reply([S EXCEPT !.jobs[jid].status = "failed"], 200, NoJob)
    [] OTHER -> Reply(AutoParkCommit(S, now, rid, jid, park_path.path), 200, jid)

\* Lines 426-429: the parking job is created, then the path is searched.
AutoParkTo(S, now, rid, node, parking_spot, jid) ==
  IF parking_spot = NoCell THEN Reply(S, 200, NoJob)
  ELSE AutoParkPlan([S EXCEPT !.jobs =
                       Append(@, create_system_job(jid, node, parking_spot, rid))],
                    now, rid, jid,
                    space_time_a_star(S, GRAPH, node, parking_spot, now, rid,
                                      MAX_SEARCH_DEPTH))

\* Auto-parking that is attempted on parking cells too.
AutoParkEverywhere(S, now, rid, node) ==
  AutoParkTo(S, now, rid, node, find_nearest_parking(S, node), Len(S.jobs) + 1)

\* Lines 424-443 of update_location: the auto-parking attempt of robot rid
\* standing on node, in the store S left by the completion.
AutoPark(S, now, rid, node) ==
  IF node \in PARKING_NODES THEN Reply(S, 200, NoJob)
  ELSE AutoParkTo(S, now, rid, node, find_nearest_parking(S, node), Len(S.jobs) + 1)

\* Lines 413-416: the current job of the robot, if any, is marked done.
MarkDone(jobtable, jid) ==
  IF jid # NoJob /\ jid \in DOMAIN jobtable
  THEN [jobtable EXCEPT ![jid].status = "done"]
  ELSE jobtable

\* Lines 412-422 of update_location: the job_done branch before parking.
CompleteJob(S, rid) ==
  [S EXCEPT !.jobs = MarkDone(@, S.robots[rid].current_job),
            !.robots[rid] = RobotIdle(@),
            !.reservations = ReleaseOwner(@, rid)]

\* Lines 385-393: node, dir and the shrunk current_path.
StoreLocation(S, rid, node, reported_dir) ==
  [S EXCEPT
     !.robots[rid].node = node,
     !.robots[rid].dir = IF reported_dir # None THEN reported_dir ELSE @,
     !.robots[rid].current_path = ShrinkPath(@, node)]

update_location(S, now, rid, node, reported_dir, status) ==
  IF rid \notin DOMAIN S.robots THEN Reply(S, 400, NoJob)
  ELSE IF status = "job_done"
    THEN AutoPark(CompleteJob(StoreLocation(S, rid, node, reported_dir), rid),
                  now, rid, node)
    ELSE Reply(StoreLocation(S, rid, node, reported_dir), 200, NoJob)

\* Lines 459-462: node and dir of the last executed step.
StoreLast(S, rid, nodes_with_dir) ==
  IF nodes_with_dir # <<>>
  THEN [S EXCEPT !.robots[rid].node = nodes_with_dir[Len(nodes_with_dir)].node,
                 !.robots[rid].dir = nodes_with_dir[Len(nodes_with_dir)].dir]
  ELSE S

\* Lines 467-473 without the release of lines 474-475.
ReportDoneKeepsTable(S, rid, jid) ==
  [S EXCEPT !.jobs = MarkDone(@, jid),
            !.robots[rid] = RobotIdle(@)]

\* Lines 467-476.
ReportDone(S, rid, jid) ==
  [S EXCEPT !.jobs = MarkDone(@, jid),
            !.robots[rid] = RobotIdle(@),
            !.reservations = ReleaseOwner(@, rid)]

report_execution(S, rid, jid, nodes_with_dir) ==
  IF rid = None \/ rid \notin DOMAIN S.robots THEN Reply(S, 400, NoJob)
  ELSE Reply(ReportDone(StoreLast(S, rid, nodes_with_dir), rid, jid), 200, NoJob)

EmptyTable == [k \in {} |-> None]

\* A reset that leaves the job table as it is.
KeepAssigned(jobtable) == jobtable

\* assigned jobs become failed
FailAssigned(jobtable) ==
  [j \in DOMAIN jobtable |->
     IF jobtable[j].status = "assigned"
     THEN [jobtable[j] EXCEPT !.status = "failed"]
     ELSE jobtable[j]]

reset_sim(S) ==
  Reply([S EXCEPT
           !.job_queue = <<>>,
           !.reservations = EmptyTable,
           !.jobs = FailAssigned(@),
           !.robots = [r \in DOMAIN S.robots |-> RobotIdle(S.robots[r])]],
        200, NoJob)

(***************************************************************************)
(* State machine.  Every handler body runs under state_lock, so one action *)
(* is one critical section.                                                *)
(***************************************************************************)
VARIABLES
  robots,           \* robots: robot_id -> dict
  robot_order,      \* the insertion order of the keys of robots
  jobs,             \* jobs: entry i is the dict of the job with id i
  job_queue,        \* job_queue, as the ids of the queued dicts
  reservations,     \* reservations: (node, time) -> robot_id
  now,              \* int(time.time())
  allocator_alive,  \* the allocator thread has not died of an exception
  state_lock,       \* state_lock: the thread that holds it, or None
  pc,               \* where each thread stands in the operation it runs
  events            \* the state writes and the broadcasts, in their order

vars == <<robots, robot_order, jobs, job_queue, reservations, now,
          allocator_alive, state_lock, pc, events>>

\* The allocator thread and the threads that serve the requests.
Threads == {"allocator", "h1", "h2"}

\* A thread outside every operation.
AtRest == [at |-> "rest", op |-> None, how |-> None, n |-> 0]

\* What the actions that run an operation from its first line to its last,
\* taking and releasing the lock within one step, leave alone.
threads == <<state_lock, pc, events>>

ThreadsAtRest ==
  /\ state_lock = None
  /\ pc = [t \in Threads |-> AtRest]
  /\ events = <<>>

Store == [robots |-> robots, robot_order |-> robot_order, jobs |-> jobs,
          job_queue |-> job_queue, reservations |-> reservations]

SetStore(S) ==
  /\ robots' = S.robots
  /\ robot_order' = S.robot_order
  /\ jobs' = S.jobs
  /\ job_queue' = S.job_queue
  /\ reservations' = S.reservations

\* The store a request leaves, while the job table stays within MaxJobs.
Handle(r) ==
  /\ Len(r.S.jobs) <= MaxJobs
  /\ SetStore(r.S)
  /\ UNCHANGED <<now, allocator_alive>>
  /\ UNCHANGED threads

\* Inputs of the requests: the cells and headings that clients name.  52 is a
\* junction of the map, 62 the dead end south of it and 51 the parking cell
\* west of it.
RegisterCells == {52}
ReportCells == {62}
ExecutedCells == {62}
PickupCells == {52}
DropCells == {62}
Dirs == {"s"}
\* A cell name that is not a key of GRAPH.
UnknownCells == {99}

Init ==
  /\ robots = [r \in {} |-> None]
  /\ robot_order = <<>>
  /\ jobs = <<>>
  /\ job_queue = <<>>
  /\ reservations = EmptyTable
  /\ now = 0
  /\ allocator_alive = TRUE
  /\ ThreadsAtRest

\* The clock reaches the next second.
Tick ==
  /\ now < MaxTime
  /\ now' = now + 1
  /\ UNCHANGED <<robots, robot_order, jobs, job_queue, reservations,
                 allocator_alive>>
  /\ UNCHANGED threads

\* The store and the thread state an allocator iteration leaves.
AllocatorDone(r) ==
  /\ SetStore(r.S)
  /\ allocator_alive' = r.alive
  /\ UNCHANGED now
  /\ UNCHANGED threads

AllocatorTick ==
  /\ allocator_alive
  /\ AllocatorDone(allocator_loop(Store, now))

\* Robot ids are opaque to the code (never ordered, never parsed), so the
\* first robot that registers is called r1.
RegisterRobotOf(rids) ==
  \E rid \in rids, node \in RegisterCells, dir \in Dirs :
    /\ rid = "r1" \/ "r1" \in DOMAIN robots
    /\ Handle(register_robot(Store, rid, node, dir))

SubmitJob ==
  \E pickup \in PickupCells, drop \in DropCells :
    Handle(submit_job(Store, pickup, drop))

PollTaskOf(rids) ==
  \E rid \in rids :
    Handle(poll_task(Store, rid))

UpdateLocationOf(rids, cells) ==
  \E rid \in rids, node \in cells, dir \in Dirs, status \in {None, "job_done"} :
    Handle(update_location(Store, now, rid, node, dir, status))

ReportExecutionOf(rids) ==
  \E rid \in rids, jid \in (1..Len(jobs)) \cup {NoJob},
     nodes_with_dir \in {<<>>} \cup {<<[node |-> c, dir |-> d]>> :
                                       c \in ExecutedCells, d \in Dirs} :
    Handle(report_execution(Store, rid, jid, nodes_with_dir))

RequestPathOf(rids, cells) ==
  \E rid \in rids, node \in cells, dir \in Dirs,
     pickup \in PickupCells, drop \in DropCells :
    Handle(request_path(Store, now, rid, node, dir, pickup, drop))

ResetSim == Handle(reset_sim(Store))

RegisterRobot == RegisterRobotOf(RobotIds)
PollTask == PollTaskOf(RobotIds)
UpdateLocation == UpdateLocationOf(RobotIds, ReportCells)
ReportExecution == ReportExecutionOf(RobotIds)
RequestPath == RequestPathOf(RobotIds, ReportCells)

Next ==
  \/ Tick
  \/ AllocatorTick
  \/ RegisterRobot
  \/ SubmitJob
  \/ PollTask
  \/ UpdateLocation
  \/ ReportExecution
  \/ RequestPath
  \/ ResetSim

Spec == Init /\ [][Next]_vars

(***************************************************************************)
(* The same machine with one robot, whose reports may also name a cell     *)
(* that is not in the map.                                                 *)
(***************************************************************************)
LoneRobot == {"r1"}

RegisterLone == RegisterRobotOf(LoneRobot)
PollLone == PollTaskOf(LoneRobot)
UpdateLocationAnywhere == UpdateLocationOf(LoneRobot, ReportCells \cup UnknownCells)
ReportExecutionLone == ReportExecutionOf(LoneRobot)
RequestPathAnywhere == RequestPathOf(LoneRobot, ReportCells \cup UnknownCells)

NextUnknown ==
  \/ Tick
  \/ AllocatorTick
  \/ RegisterLone
  \/ SubmitJob
  \/ PollLone
  \/ UpdateLocationAnywhere
  \/ ReportExecutionLone
  \/ RequestPathAnywhere
  \/ ResetSim

SpecUnknown == Init /\ [][NextUnknown]_vars

(***************************************************************************)
(* The requests with the cells they name as parameters, for the machines   *)
(* below that place the fleet on other parts of the map.                   *)
(***************************************************************************)
RegisterRobotAt(rids, cells) ==
  \E rid \in rids, node \in cells, dir \in Dirs :
    /\ rid = "r1" \/ "r1" \in DOMAIN robots
    /\ Handle(register_robot(Store, rid, node, dir))

SubmitJobFor(pickups, drops) ==
  \E pickup \in pickups, drop \in drops :
    Handle(submit_job(Store, pickup, drop))

ReportExecutionAt(rids, cells) ==
  \E rid \in rids, jid \in (1..Len(jobs)) \cup {NoJob},
     nodes_with_dir \in {<<>>} \cup {<<[node |-> c, dir |-> d]>> :
                                       c \in cells, d \in Dirs} :
    Handle(report_execution(Store, rid, jid, nodes_with_dir))

RequestPathFor(rids, cells, pickups, drops) ==
  \E rid \in rids, node \in cells, dir \in Dirs,
     pickup \in pickups, drop \in drops :
    Handle(request_path(Store, now, rid, node, dir, pickup, drop))

(***************************************************************************)
(* The machine of Spec whose robots also report from the parking cell 51.  *)
(***************************************************************************)
ParkingReportCells == {51, 62}

UpdateLocationParking == UpdateLocationOf(RobotIds, ParkingReportCells)

NextParking ==
  \/ Tick
  \/ AllocatorTick
  \/ RegisterRobot
  \/ SubmitJob
  \/ PollTask
  \/ UpdateLocationParking
  \/ ReportExecution
  \/ ResetSim

SpecParking == Init /\ [][NextParking]_vars

(***************************************************************************)
(* The machine of the reference scenarios: the single robot r1 registers   *)
(* on 81 heading south, jobs go from 81 to 71, and the robot reports from  *)
(* 71 and from 33.                                                         *)
(***************************************************************************)
ScenarioRegisterCells == {81}
ScenarioPickupCells == {81}
ScenarioDropCells == {71}
ScenarioReportCells == {33, 71}
ScenarioExecutedCells == {71}

RegisterScenario == RegisterRobotAt(LoneRobot, ScenarioRegisterCells)
SubmitScenario == SubmitJobFor(ScenarioPickupCells, ScenarioDropCells)
UpdateLocationScenario == UpdateLocationOf(LoneRobot, ScenarioReportCells)
ReportExecutionScenario == ReportExecutionAt(LoneRobot, ScenarioExecutedCells)

NextScenario ==
  \/ Tick
  \/ AllocatorTick
  \/ RegisterScenario
  \/ SubmitScenario
  \/ PollLone
  \/ UpdateLocationScenario
  \/ ReportExecutionScenario
  \/ ResetSim

SpecScenario == Init /\ [][NextScenario]_vars

\* A fleet around the junction 52-53-63: 62 is the dead end whose only exit is
\* 52, 64 is the cell east of 63.  Jobs go from 63 to 53.
FleetRegisterCells == {52, 62, 64}
FleetPickupCells == {63}
FleetDropCells == {53}
FleetReportCells == {53}

RegisterFleet == RegisterRobotAt(RobotIds, FleetRegisterCells)
SubmitFleet == SubmitJobFor(FleetPickupCells, FleetDropCells)
UpdateLocationFleet == UpdateLocationOf(RobotIds, FleetReportCells)

NextFleet ==
  \/ Tick
  \/ AllocatorTick
  \/ RegisterFleet
  \/ SubmitFleet
  \/ PollTask
  \/ UpdateLocationFleet
  \/ ResetSim

SpecFleet == Init /\ [][NextFleet]_vars

\* An allocator iteration would change the state: ENABLED <<AllocatorTick>>_vars
\* written as a state predicate.
AllocatorWouldAct ==
  /\ allocator_alive
  /\ \/ allocator_loop(Store, now).S # Store
     \/ ~allocator_loop(Store, now).alive

\* The allocator thread runs its loop every 0.5 s for ever (while True and
\* time.sleep(0.5)), whatever requests arrive in between: an iteration that
\* would change the state again and again is taken again and again.  Every
\* behaviour that satisfies this strong fairness of AllocatorTick satisfies
\* its weak fairness.
AllocatorRunsForever ==
  <>[](~AllocatorWouldAct) \/ []<><<AllocatorTick>>_vars

\* Every robot that has a job reports its completion: no robot is busy for
\* ever.
RobotsReportCompletion ==
  \A rid \in RobotIds :
    []<>(rid \notin DOMAIN robots \/ robots[rid].status # "busy")

\* The clock goes on, the allocator runs and the robots complete their jobs.
SpecFleetFair ==
  /\ Init
  /\ [][NextFleet]_vars
  /\ WF_vars(Tick)
  /\ AllocatorRunsForever
  /\ RobotsReportCompletion

(***************************************************************************)
(* The command translator on its own.  One robot stands on a cell of the   *)
(* south-west corner of the map with any heading; what the planner returns *)
(* is any walk from its cell (every step an edge of GRAPH or a wait), and  *)
(* the three places that publish a plan translate it.                      *)
(***************************************************************************)
Headings == DOMAIN CLOCKWISE
TranslateCells == {71, 72, 73, 81}

\* b is what space_time_a_star can append after a: a neighbour or a itself.
IsStep(a, b) == b \in Neighbors(GRAPH, a)

WalksOfLen(n) ==
  {p \in [1..n -> TranslateCells] : \A i \in 1..(n - 1) : IsStep(p[i], p[i + 1])}

Walks == UNION {WalksOfLen(n) : n \in 1..MaxPathLen}

\* The planner returns a path as soon as it pops its goal (line 107), so the
\* goal is the last cell of the path and no earlier one.
StopsAtGoal(p) == \A i \in 1..(Len(p) - 1) : p[i] # p[Len(p)]

\* The walks from cell `from`; those that end on cell `to`.
WalksFrom(from) == {p \in Walks : p[1] = from /\ StopsAtGoal(p)}
WalksBetween(from, to) == {p \in WalksFrom(from) : p[Len(p)] = to}

\* The planner's answer for a path it has found.
Found(p) == [kind |-> "path", path |-> p]

InitTranslate ==
  /\ \E node \in TranslateCells, dir \in Headings :
       robots = [r \in LoneRobot |-> NewRobot(node, dir)]
  /\ robot_order = <<"r1">>
  /\ jobs = <<>>
  /\ job_queue = <<>>
  /\ reservations = EmptyTable
  /\ now = 0
  /\ allocator_alive = TRUE
  /\ ThreadsAtRest

\* One job is submitted and one plan is published in a behaviour.
SubmitTranslate ==
  /\ jobs = <<>>
  /\ SubmitJobFor(TranslateCells, TranslateCells)

\* Lines 243-272 of allocator_loop for the head job and the only robot, with
\* legs path1 and path2.
PublishAllocator ==
  /\ job_queue # <<>>
  /\ robots["r1"].status = "idle"
  /\ \E path1 \in WalksBetween(robots["r1"].node, jobs[Head(job_queue)].pickup) :
       \E path2 \in WalksBetween(jobs[Head(job_queue)].pickup, jobs[Head(job_queue)].drop) :
         /\ Len(path1) + Len(path2) - 1 <= MaxPathLen
         /\ SetStore(AllocatorCommit(Store, now, Head(job_queue), "r1", path1, path2))
         /\ UNCHANGED <<now, allocator_alive>>
         /\ UNCHANGED threads

\* Lines 296-331 of request_path with legs p1 and p2.
PublishRequest ==
  \E facing \in Headings, p1 \in WalksFrom(robots["r1"].node) :
    \E p2 \in WalksFrom(p1[Len(p1)]) :
      /\ robots["r1"].status = "idle"
      /\ Len(p1) + Len(p2) - 1 <= MaxPathLen
      /\ Handle(RequestPathLeg2([Store EXCEPT !.robots["r1"].dir = facing], now, "r1",
                                facing, p1[Len(p1)], p2[Len(p2)], p1, Found(p2)))

\* Lines 426-443 of update_location with the parking path park_path.
PublishParking ==
  /\ robots["r1"].status = "idle"
  /\ \E park_path \in WalksFrom(robots["r1"].node) :
       Handle(AutoParkPlan([Store EXCEPT !.jobs =
                              Append(@, create_system_job(Len(jobs) + 1, robots["r1"].node,
                                                          park_path[Len(park_path)], "r1"))],
                           now, "r1", Len(jobs) + 1, Found(park_path)))

NextTranslate ==
  \/ SubmitTranslate
  \/ PublishAllocator
  \/ PublishRequest
  \/ PublishParking

SpecTranslate == InitTranslate /\ [][NextTranslate]_vars

(***************************************************************************)
(* The planner among moving robots.  Three robots stand around the         *)
(* junction 52: on the dead ends 51 and 62 and on 63, two cells from 52;   *)
(* each asks for a path of its own with request_path, all within the same  *)
(* second.                                                                 *)
(***************************************************************************)
ConvoyRobots == {"r1", "r2", "r3"}
ConvoyRegisterCells == {51, 62, 63}
ConvoyPickupCells == {52, 53}
ConvoyDropCells == {52, 53}

\* Every robot registers once; the ids are opaque to the code, so the robots
\* are called r1, r2, r3 in the order they register in.
RegisterConvoy ==
  \E rid \in ConvoyRobots \ DOMAIN robots :
    /\ rid = "r3" => "r2" \in DOMAIN robots
    /\ RegisterRobotAt({rid}, ConvoyRegisterCells)

\* A robot asks for a path from the cell it stands on.
RequestPathConvoy ==
  \E rid \in ConvoyRobots :
    /\ rid \in DOMAIN robots
    /\ RequestPathFor({rid}, {robots[rid].node}, ConvoyPickupCells, ConvoyDropCells)

NextConvoy ==
  \/ RegisterConvoy
  \/ RequestPathConvoy

SpecConvoy == Init /\ [][NextConvoy]_vars

(***************************************************************************)
(* The planner around standing robots.  The cells 21, 22, 31 and 32 form a *)
(* square (21 -> 22 -> 32 and 21 -> 31 -> 32), so a route blocked on one   *)
(* side has a detour of the same length on the other; 33 and 43 continue   *)
(* the way east and south of 32.                                           *)
(***************************************************************************)
SquareRobots == {"r1", "r2", "r3"}
SquareRegisterCells == {21, 22, 31}
SquarePickupCells == {22, 32}
SquareDropCells == {32, 33}

RegisterSquare ==
  \E rid \in SquareRobots \ DOMAIN robots :
    /\ rid = "r3" => "r2" \in DOMAIN robots
    /\ RegisterRobotAt({rid}, SquareRegisterCells)

RequestPathSquare ==
  \E rid \in SquareRobots :
    /\ rid \in DOMAIN robots
    /\ RequestPathFor({rid}, {robots[rid].node}, SquarePickupCells, SquareDropCells)

NextSquare ==
  \/ RegisterSquare
  \/ RequestPathSquare

SpecSquare == Init /\ [][NextSquare]_vars

(***************************************************************************)
(* The threads and the lock.  Here an operation is not one step: a thread  *)
(* takes state_lock, runs the body of its with block, leaves the block     *)
(* (by falling through, by a return or by an exception), and register_robot *)
(* and submit_job then emit their event after the block.  Two threads      *)
(* serve requests beside the allocator thread.                             *)
(***************************************************************************)
Handlers == Threads \ {"allocator"}

\* The number of operations a thread starts.
MaxRequests == 2
MaxPasses == 2

\* The operations that emit after their with block.
EmitsAfterBlock == {"register_robot", "submit_job"}

\* state_lock after the with block of holder was left in the way how:
\* __exit__ releases the lock whether the block fell through, returned or
\* raised.
ReleasedOnReturnOnly(holder, how) == IF how = "return" THEN None ELSE holder

Released(holder, how) == None

\* How a request leaves its block: HTTP 200 is the return at the end, 400
\* an early return, 500 the return for no path or an exception.
HowOf(code) ==
  CASE code = 200 -> "return"
    [] code = 400 -> "early"
    [] OTHER -> "error"

Write(t) == [by |-> t, n |-> pc[t].n, what |-> "write"]
Emit(t) == [by |-> t, n |-> pc[t].n, what |-> "emit"]

\* with state_lock: the thread waits until the lock is free and takes it.
Acquire(t) ==
  /\ state_lock = None
  /\ pc[t].at = "rest"
  /\ pc[t].n < (IF t = "allocator" THEN MaxPasses ELSE MaxRequests)
  /\ t = "allocator" => allocator_alive
  /\ state_lock' = t
  /\ pc' = [pc EXCEPT ![t] = [at |-> "locked", op |-> None, how |-> None, n |-> @.n + 1]]
  /\ UNCHANGED <<robots, robot_order, jobs, job_queue, reservations, now,
                 allocator_alive, events>>

\* The thread ran the body of operation op to reply r; inside tells whether
\* the body emitted events.
BodyDone(t, op, r, how, inside) ==
  /\ state_lock = t
  /\ pc[t].at = "locked"
  /\ Len(r.S.jobs) <= MaxJobs
  /\ SetStore(r.S)
  /\ pc' = [pc EXCEPT ![t].at = "exit", ![t].op = op, ![t].how = how]
  /\ events' = IF inside THEN events \o <<Write(t), Emit(t)>>
               ELSE IF op \in EmitsAfterBlock /\ how = "return"
                 THEN Append(events, Write(t))
               ELSE events
  /\ UNCHANGED <<now, allocator_alive, state_lock>>

\* Lines 220-276: one pass of the allocator; it emits for every job it
\* assigns.
BodyAllocator ==
  BodyDone("allocator", "allocator_loop", allocator_loop(Store, now),
           IF allocator_loop(Store, now).alive THEN "return" ELSE "error",
           allocator_loop(Store, now).S.jobs # jobs)

\* Lines 340-343.
BodyRegister(t) ==
  \E node \in RegisterCells, dir \in Dirs :
    BodyDone(t, "register_robot", register_robot(Store, "r1", node, dir),
             "return", FALSE)

\* Lines 354-356.
BodySubmit(t) ==
  \E pickup \in PickupCells, drop \in DropCells :
    BodyDone(t, "submit_job", submit_job(Store, pickup, drop), "return", FALSE)

\* Lines 296-331: the robot was known at line 292, before the block.
RequestPathDone(t, r) ==
  BodyDone(t, "request_path", r, HowOf(r.code), r.code = 200)

BodyRequestPath(t) ==
  \E node \in ReportCells \cup UnknownCells, dir \in Dirs,
     pickup \in PickupCells, drop \in DropCells :
    /\ "r1" \in DOMAIN robots
    /\ RequestPathDone(t, request_path(Store, now, "r1", node, dir, pickup, drop))

\* Lines 381-445; the robot r2 never registers.
UpdateLocationDone(t, r) ==
  BodyDone(t, "update_location", r, HowOf(r.code), r.code = 200)

BodyUpdateLocation(t) ==
  \E rid \in RobotIds, node \in ReportCells \cup UnknownCells, dir \in Dirs :
    UpdateLocationDone(t, update_location(Store, now, rid, node, dir, None))

\* The end of the with block, and what follows it: the allocator thread ends
\* with its exception or sleeps; register_robot and submit_job go on to
\* their emit; every other request is answered.
Leave(t) ==
  /\ state_lock = t
  /\ pc[t].at = "exit"
  /\ state_lock' = Released(t, pc[t].how)
  /\ allocator_alive' = (allocator_alive /\ ~ (t = "allocator" /\ pc[t].how = "error"))
  /\ pc' = [pc EXCEPT ![t].at =
              IF t = "allocator" /\ pc[t].how = "error" THEN "dead"
              ELSE IF pc[t].op \in EmitsAfterBlock /\ pc[t].how = "return" THEN "emit"
              ELSE "rest"]
  /\ UNCHANGED <<robots, robot_order, jobs, job_queue, reservations, now, events>>

\* Lines 344 and 357: socketio.emit after the with block.
EmitAfter(t) ==
  /\ pc[t].at = "emit"
  /\ events' = Append(events, Emit(t))
  /\ pc' = [pc EXCEPT ![t].at = "rest"]
  /\ UNCHANGED <<robots, robot_order, jobs, job_queue, reservations, now,
                 allocator_alive, state_lock>>

NextThreads ==
  \/ \E t \in Threads : Acquire(t)
  \/ BodyAllocator
  \/ \E t \in Handlers : BodyRegister(t)
  \/ \E t \in Handlers : BodySubmit(t)
  \/ \E t \in Handlers : BodyRequestPath(t)
  \/ \E t \in Handlers : BodyUpdateLocation(t)
  \/ \E t \in Threads : Leave(t)
  \/ \E t \in Handlers : EmitAfter(t)

SpecThreads == Init /\ [][NextThreads]_vars

(***************************************************************************)
(* Properties.                                                             *)
(***************************************************************************)
\* The robot rid is busy on a job of the job table.
BusyOnJob(rid) ==
  /\ robots[rid].status = "busy"
  /\ robots[rid].current_job \in DOMAIN jobs

\* The jobs in status 'assigned' whose assigned robot is rid.
AssignedTo(rid) ==
  {j \in DOMAIN jobs : jobs[j].status = "assigned" /\ jobs[j].assigned_robot = rid}

\* C1 (P5, vertex non-collision): for any two distinct busy robots whose
\* current jobs have the cell sequences P1 and P2 committed from the start
\* times t1 and t2, no indices i, j have P1[i] = P2[j] and t1 + i = t2 + j.
VertexNonCollision ==
  \A ra, rb \in DOMAIN robots :
    (ra # rb /\ BusyOnJob(ra) /\ BusyOnJob(rb)) =>
      \A i \in 1..Len(jobs[robots[ra].current_job].path),
         j \in 1..Len(jobs[robots[rb].current_job].path) :
        ~ /\ jobs[robots[ra].current_job].path[i] = jobs[robots[rb].current_job].path[j]
          /\ jobs[robots[ra].current_job].t0 + i = jobs[robots[rb].current_job].t0 + j

\* C2 (I2 and the commit rule): a commit writes only keys that were free or
\* owned by the same robot, so a busy robot owns every key (planCell[i], t0+i)
\* of its current job that has not expired, until it completes or a reset.
BusyRobotKeepsTrajectory ==
  \A rid \in DOMAIN robots :
    BusyOnJob(rid) =>
      \A k \in TrajectoryKeys(jobs[robots[rid].current_job].path,
                              jobs[robots[rid].current_job].t0) :
        k[2] >= now => (k \in DOMAIN reservations /\ reservations[k] = rid)

\* C3 (I5): for every robot at most one job in status 'assigned' has it as
\* its assigned robot.
AtMostOneAssignedJob ==
  \A rid \in DOMAIN robots : Cardinality(AssignedTo(rid)) <= 1

\* C4 (P2): every busy robot has exactly one job in status 'assigned' that
\* is assigned to it, and that job is the one poll_task returns for it.
BusyRobotHasItsJob ==
  \A rid \in DOMAIN robots :
    robots[rid].status = "busy" => AssignedTo(rid) = {poll_task(Store, rid).job}

\* C5 (I4): between operations a robot has status 'busy' if and only if it
\* has a current_job.
BusyIffCurrentJob ==
  \A rid \in DOMAIN robots :
    robots[rid].status = "busy" <=> robots[rid].current_job # NoJob

\* C5, its case: one robot is busy on a job while another one, which had a
\* job and completed it, is idle again.
BusyAndIdleAgain ==
  \E ra, rb \in DOMAIN robots :
    /\ ra # rb
    /\ BusyOnJob(ra)
    /\ robots[rb].status = "idle"
    /\ \E j \in DOMAIN jobs : jobs[j].assigned_robot = rb /\ jobs[j].status = "done"

\* C6 (I6/P4): the job queue holds no job whose status is not 'queued'.
QueueHoldsQueuedJobs ==
  \A i \in 1..Len(job_queue) : jobs[job_queue[i]].status = "queued"

\* A job is assigned in the state after a step and was not in the state
\* before it.
NewlyAssigned(j) ==
  /\ jobs'[j].status = "assigned"
  /\ j \in DOMAIN jobs => jobs[j].status # "assigned"

\* C7 (I3/P3): after every operation every job in status 'assigned' has an
\* assigned robot, a plan and a path, and when the operation assigned it the
\* first cell of the path is the cell of the assigned robot.
AssignedJobHasPlan ==
  [][\A j \in DOMAIN jobs' :
       jobs'[j].status = "assigned" =>
         /\ jobs'[j].assigned_robot # None
         /\ jobs'[j].plan # <<>>
         /\ jobs'[j].path # <<>>
         /\ NewlyAssigned(j) =>
              jobs'[j].path[1] = robots'[jobs'[j].assigned_robot].node]_vars

\* C8 (monotone status): a step keeps every job and moves its status only
\* queued -> assigned, assigned -> done or assigned -> failed.
StatusMonotone ==
  [][\A j \in DOMAIN jobs :
       /\ j \in DOMAIN jobs'
       /\ \/ jobs'[j].status = jobs[j].status
          \/ jobs[j].status = "queued" /\ jobs'[j].status = "assigned"
          \/ jobs[j].status = "assigned" /\ jobs'[j].status \in {"done", "failed"}]_vars

\* What the idempotence of completion compares: status and current job of
\* every robot, the status of every job, and the reservation table.
Outcome(S) ==
  [robots |-> [r \in DOMAIN S.robots |->
                 <<S.robots[r].status, S.robots[r].current_job>>],
   jobs |-> [j \in DOMAIN S.jobs |-> S.jobs[j].status],
   reservations |-> S.reservations]

\* The store after update_location{status: job_done} of robot rid on node.
AfterJobDone(S, rid, node, dir) == update_location(S, now, rid, node, dir, "job_done").S

\* The store after report_execution of robot rid for job jid, last step on node.
AfterReport(S, rid, jid, node, dir) ==
  report_execution(S, rid, jid, <<[node |-> node, dir |-> dir]>>).S

\* Both orders of the two completion requests: the second changes nothing.
SecondChangesNothing(rid, jid, node, dir) ==
  /\ Outcome(AfterReport(AfterJobDone(Store, rid, node, dir), rid, jid, node, dir))
       = Outcome(AfterJobDone(Store, rid, node, dir))
  /\ Outcome(AfterJobDone(AfterReport(Store, rid, jid, node, dir), rid, node, dir))
       = Outcome(AfterReport(Store, rid, jid, node, dir))

\* C9 (duplicate completion is idempotent): when a busy robot sends
\* update_location{status: job_done} and report_execution for its current
\* job, in either order, the second request leaves robots' status and current
\* job, all job statuses and the reservation table as the first left them.
DuplicateCompletionIdempotent ==
  \A rid \in DOMAIN robots, node \in ExecutedCells, dir \in Dirs :
    BusyOnJob(rid) => SecondChangesNothing(rid, robots[rid].current_job, node, dir)

\* Outcome (a) of auto-parking in the store S: the robot is busy, poll
\* returns the new job jid, whose pickup is the reported cell, which has a
\* plan, and whose path is reserved for the robot from the current time.
ParkingJobPolled(S, rid, jid, node) ==
  /\ S.robots[rid].status = "busy"
  /\ poll_task(S, rid).job = jid
  /\ jid \in DOMAIN S.jobs
  /\ S.jobs[jid].status = "assigned"
  /\ S.jobs[jid].pickup = node
  /\ S.jobs[jid].plan # <<>>
  /\ S.jobs[jid].path # <<>>
  /\ \A k \in TrajectoryKeys(S.jobs[jid].path, now) :
       k \in DOMAIN S.reservations /\ S.reservations[k] = rid

\* Outcome (b) of auto-parking in the store S: the synthesized job jid is
\* failed, the robot is idle and poll returns no job.
ParkingJobFailed(S, rid, jid) ==
  /\ jid \in DOMAIN S.jobs
  /\ S.jobs[jid].status = "failed"
  /\ S.robots[rid].status = "idle"
  /\ poll_task(S, rid).job = NoJob

\* C10 (auto-park outcomes): when a robot reports job_done on a cell that
\* is not a parking cell, then right afterwards either (a) it is busy and
\* polls a new parking job from the reported cell with a plan and
\* reservations from the current time, or (b) the synthesized job is failed,
\* the robot is idle and polls nothing.
JobDoneParksOrFails ==
  \A rid \in DOMAIN robots, node \in (ReportCells \cup UnknownCells) \ PARKING_NODES,
     dir \in Dirs :
    \/ ParkingJobPolled(AfterJobDone(Store, rid, node, dir), rid, Len(jobs) + 1, node)
    \/ ParkingJobFailed(AfterJobDone(Store, rid, node, dir), rid, Len(jobs) + 1)

\* The store S holds as many jobs as the present job table, and robot rid is
\* idle in it with no current job and no reservation.
IdleWithoutNewJob(S, rid) ==
  /\ Len(S.jobs) = Len(jobs)
  /\ S.robots[rid].status = "idle"
  /\ S.robots[rid].current_job = NoJob
  /\ \A k \in DOMAIN S.reservations : S.reservations[k] # rid

\* C11 (B3): when a robot reports job_done and the reported cell is a parking
\* cell, no auto-park job is created: the job table gains no entry, the
\* robot is idle with no current job and owns no reservation.
NoAutoParkOnParkingCell ==
  \A rid \in DOMAIN robots, node \in ParkingReportCells \cap PARKING_NODES,
     dir \in Dirs :
    IdleWithoutNewJob(AfterJobDone(Store, rid, node, dir), rid)

\* C11, its case: a robot completed its parking job on the parking cell 51
\* and stands there idle.
ParkedOnParkingCell ==
  \E rid \in DOMAIN robots, j \in DOMAIN jobs :
    /\ robots[rid].node = 51
    /\ IdleWithoutNewJob(Store, rid)
    /\ jobs[j].assigned_robot = rid
    /\ jobs[j].status = "done"
    /\ jobs[j].drop = 51
    /\ jobs[j].path # <<>>

\* Manhattan distance of two cells of the map, whose names are row and column.
CellDistance(a, b) ==
  Abs((a % 10) - (b % 10)) + Abs((a \div 10) - (b \div 10))

\* No idle robot of the store S stands on cell p.
Unoccupied(S, p) ==
  \A r \in DOMAIN S.robots : ~ (S.robots[r].status = "idle" /\ S.robots[r].node = p)

\* If the store S holds the job jid, its drop is an unoccupied parking cell
\* at the least distance from node among the unoccupied parking cells.
DropIsNearestParking(S, jid, node) ==
  jid \in DOMAIN S.jobs =>
    /\ S.jobs[jid].drop \in PARKING_NODES
    /\ Unoccupied(S, S.jobs[jid].drop)
    /\ \A p \in PARKING_NODES :
         Unoccupied(S, p) => CellDistance(node, S.jobs[jid].drop) <= CellDistance(node, p)

\* C12 (nearest parking): the drop cell of every synthesized auto-park job
\* is a parking cell that no idle robot occupies, at the least Manhattan
\* distance from the reported cell among such parking cells.
AutoParkDropNearest ==
  \A rid \in DOMAIN robots, node \in ParkingReportCells \ PARKING_NODES, dir \in Dirs :
    DropIsNearestParking(AfterJobDone(Store, rid, node, dir), Len(jobs) + 1, node)

\* C12, its case: with an idle robot on the parking cell 51, the auto-park
\* job of a robot that reported from 62 has the drop 82.
ParkedAwayFromOccupied ==
  \E r \in DOMAIN robots, j \in DOMAIN jobs :
    /\ robots[r].status = "idle" /\ robots[r].node = 51
    /\ jobs[j].pickup = 62 /\ jobs[j].drop = 82
    /\ jobs[j].assigned_robot # r

\* In the store S robot rid is busy on the job jid, which is assigned to it,
\* goes from pickup to drop, has a plan, and whose path is reserved for rid
\* from the current time.
ParkingJobTo(S, rid, jid, pickup, drop) ==
  /\ ParkingJobPolled(S, rid, jid, pickup)
  /\ S.jobs[jid].assigned_robot = rid
  /\ S.jobs[jid].drop = drop

\* C13 as the code has it (scenario 5 on the reference map): a robot that
\* reports job_done at cell 33 while no other robot stands on a parking cell
\* gets a synthesized auto-park job with pickup 33 and drop 13; 13 and 31 are
\* both two cells away and the cell with the smaller name is taken.
Scenario5ParksAt13 ==
  \A rid \in DOMAIN robots, dir \in Dirs :
    (\A r \in DOMAIN robots \ {rid} : robots[r].node \notin PARKING_NODES) =>
      ParkingJobTo(AfterJobDone(Store, rid, 33, dir), rid, Len(jobs) + 1, 33, 13)

\* C13 as stated: the synthesized auto-park job has pickup 33 and drop 31.
Scenario5ParksAt31 ==
  \A rid \in DOMAIN robots, dir \in Dirs :
    (\A r \in DOMAIN robots \ {rid} : robots[r].node \notin PARKING_NODES) =>
      ParkingJobTo(AfterJobDone(Store, rid, 33, dir), rid, Len(jobs) + 1, 33, 31)

\* C13, its case: the robot is busy on a parking job from 33 that it got
\* when it completed a job there.
ParkingFrom33 ==
  \E rid \in DOMAIN robots :
    /\ BusyOnJob(rid)
    /\ jobs[robots[rid].current_job].pickup = 33
    /\ robots[rid].node = 33
    /\ \E j \in DOMAIN jobs : jobs[j].status = "done" /\ jobs[j].assigned_robot = rid

\* Scenario 1 before the tick: r1 is the only robot, idle on 81 heading
\* south, and the queue holds one job, from 81 to 71.
Scenario1Start ==
  /\ DOMAIN robots = {"r1"}
  /\ robots["r1"].status = "idle"
  /\ robots["r1"].node = 81
  /\ robots["r1"].dir = "s"
  /\ Len(job_queue) = 1
  /\ jobs[job_queue[1]].status = "queued"
  /\ jobs[job_queue[1]].pickup = 81
  /\ jobs[job_queue[1]].drop = 71

\* In the store S the poll of r1 returns the job jid with this path and plan.
PolledJobIs(S, jid, path, plan) ==
  /\ poll_task(S, "r1").job = jid
  /\ S.jobs[jid].status = "assigned"
  /\ S.jobs[jid].path = path
  /\ S.jobs[jid].plan = plan

ResetPostState(S, T) ==
  /\ T.job_queue = <<>>
  /\ DOMAIN T.reservations = {}
  /\ DOMAIN T.jobs = DOMAIN S.jobs
  /\ \A j \in DOMAIN S.jobs :
       S.jobs[j].status = "assigned" => T.jobs[j].status = "failed"
  /\ DOMAIN T.robots = DOMAIN S.robots
  /\ \A r \in DOMAIN T.robots :
       /\ T.robots[r].status = "idle"
       /\ T.robots[r].current_job = NoJob
       /\ T.robots[r].current_path = <<>>

\* C14: in the state right after reset_sim, whatever the state before, the
\* queue is empty, the reservation table is empty, every job that was
\* assigned is failed, and every robot is idle with no current job and an
\* empty current path.
ResetClearsEverything == ResetPostState(Store, reset_sim(Store).S)

\* A reset that had an assigned job, a reservation and a busy robot to
\* clear has run: only reset_sim makes a planned job failed.
ResetDuringActivePlan ==
  /\ \E j \in DOMAIN jobs : jobs[j].status = "failed" /\ jobs[j].path # <<>>
  /\ job_queue = <<>>
  /\ DOMAIN reservations = {}
  /\ robots # EmptyTable
  /\ \A r \in DOMAIN robots : robots[r].status = "idle"

\* The jobs an allocator iteration considers, in queue order.
PendingJobs(S) == SelectSeq(S.job_queue, LAMBDA j : S.jobs[j].status = "queued")

\* The planner finds leg 2 of job jid for robot rid, which arrives at the
\* pickup by path1.
SecondLegExists(S, t, jid, rid, path1) ==
  /\ path1.kind = "path"
  /\ space_time_a_star(S, GRAPH, S.jobs[jid].pickup, S.jobs[jid].drop,
                       t + Len(path1.path) - 1, rid, MAX_SEARCH_DEPTH).kind = "path"

\* From time t robot rid has a conflict-free path to the pickup of job jid and
\* from there to its drop.
TwoLegPathExists(S, t, jid, rid) ==
  SecondLegExists(S, t, jid, rid,
                  space_time_a_star(S, GRAPH, S.robots[rid].node, S.jobs[jid].pickup,
                                    t, rid, MAX_SEARCH_DEPTH))

SomeIdleRobotHasPath(S, t, jid) ==
  \E rid \in DOMAIN S.robots :
    S.robots[rid].status = "idle" /\ TwoLegPathExists(S, t, jid, rid)

\* Job jid of store T is assigned and the poll of its robot returns it.
AssignedAndPolled(T, jid) ==
  /\ T.jobs[jid].status = "assigned"
  /\ T.jobs[jid].assigned_robot \in DOMAIN T.robots
  /\ poll_task(T, T.jobs[jid].assigned_robot).code = 200
  /\ poll_task(T, T.jobs[jid].assigned_robot).job = jid

\* The store an allocator iteration starts its loop over the jobs with.
AfterRelease(S, t) == [S EXCEPT !.reservations = ReleaseBeforeTime(@, t)]

\* C15: if at an allocator tick some idle robot has a conflict-free path to the
\* pickup and then to the drop of the first queued job, then after that tick
\* the job is assigned and the poll of its assigned robot returns that job.
QueuedJobWithPathAssigned ==
  (/\ allocator_alive
   /\ PendingJobs(Store) # <<>>
   /\ SomeIdleRobotHasPath(AfterRelease(Store, now), now, Head(PendingJobs(Store))))
  => AssignedAndPolled(allocator_loop(Store, now).S, Head(PendingJobs(Store)))

\* The jobs an allocator iteration from store S to store T has assigned.
AssignedByTick(S, T) ==
  {j \in DOMAIN S.jobs : S.jobs[j].status = "queued" /\ T.jobs[j].status = "assigned"}

\* The index of x in the list q.
IndexIn(q, x) == CHOOSE k \in 1..Len(q) : q[k] = x

\* The iteration gave robot r to a job that precedes job j in the queue.
TakenBefore(S, T, j, r) ==
  \E i \in AssignedByTick(S, T) :
    /\ IndexIn(S.job_queue, i) < IndexIn(S.job_queue, j)
    /\ T.jobs[i].assigned_robot = r

\* Robot q is nearer to the cell than robot r, or as near and registered
\* before it.
PreferredTo(S, q, r, cell) ==
  \/ CellDistance(S.robots[q].node, cell) < CellDistance(S.robots[r].node, cell)
  \/ /\ CellDistance(S.robots[q].node, cell) = CellDistance(S.robots[r].node, cell)
     /\ IndexIn(S.robot_order, q) < IndexIn(S.robot_order, r)

\* Robot rid, chosen for job j, was idle and still free, and every idle robot
\* preferred to it had been given to an earlier job of the iteration.
ChosenForJob(S, T, j, rid) ==
  /\ rid \in DOMAIN S.robots
  /\ S.robots[rid].status = "idle"
  /\ ~TakenBefore(S, T, j, rid)
  /\ \A q \in DOMAIN S.robots \ {rid} :
       (S.robots[q].status = "idle" /\ PreferredTo(S, q, rid, S.jobs[j].pickup))
         => TakenBefore(S, T, j, q)

NearestIdleChosen(S, T) ==
  \A j \in AssignedByTick(S, T) : ChosenForJob(S, T, j, T.jobs[j].assigned_robot)

\* C16: whenever the allocator assigns a queued job, the chosen robot was idle
\* at that moment and no other idle robot had a strictly smaller Manhattan
\* distance to the pickup; among idle robots at equal minimal distance the one
\* registered first is chosen.
AllocatorChoosesNearestIdle ==
  allocator_alive => NearestIdleChosen(Store, allocator_loop(Store, now).S)

\* The iteration about to run assigns the head job to the robot registered
\* second although the robot registered first is idle too.
SecondRobotChosen ==
  /\ allocator_alive
  /\ Len(robot_order) = 2
  /\ \A r \in DOMAIN robots : robots[r].status = "idle"
  /\ PendingJobs(Store) # <<>>
  /\ Head(PendingJobs(Store)) \in AssignedByTick(Store, allocator_loop(Store, now).S)
  /\ allocator_loop(Store, now).S.jobs[Head(PendingJobs(Store))].assigned_robot = robot_order[2]

\* The list q without the elements of the set gone.
Without(q, gone) == SelectSeq(q, LAMBDA x : x \notin gone)

\* The robots an allocator iteration from S to T gave a job to.
RobotsOf(T, assigned) == {T.jobs[j].assigned_robot : j \in assigned}

\* The reservation keys of the trajectories of the jobs assigned at time t.
TrajectoriesOf(T, assigned, t) ==
  UNION {TrajectoryKeys(T.jobs[j].path, t) : j \in assigned}

\* What an allocator iteration at time t leaves of the jobs it has not
\* assigned: each is queued as before and keeps its place in the queue, every
\* new or changed reservation belongs to the trajectory of an assigned job,
\* and every robot that got no job is as before.
SkippedJobsUntouched(S, T, t, assigned) ==
  /\ \A j \in DOMAIN S.jobs \ assigned : T.jobs[j] = S.jobs[j]
  /\ T.job_queue = Without(S.job_queue, assigned)
  /\ \A k \in DOMAIN T.reservations :
       \/ k \in DOMAIN S.reservations /\ T.reservations[k] = S.reservations[k]
       \/ k \in TrajectoriesOf(T, assigned, t)
  /\ \A r \in DOMAIN S.robots \ RobotsOf(T, assigned) : T.robots[r] = S.robots[r]

\* C17: when the planner returns NoPath for either leg of a queued job, the
\* allocator tick leaves that job queued and in the queue at its position,
\* creates no reservation, and leaves the candidate robot idle with no current
\* job; the allocator goes on, so the job is considered again at the next tick.
NoPathLeavesJobQueued ==
  allocator_alive =>
    /\ SkippedJobsUntouched(Store, allocator_loop(Store, now).S, now,
                            AssignedByTick(Store, allocator_loop(Store, now).S))
    /\ allocator_loop(Store, now).alive

\* The planner returns NoPath for the first leg of the head job.
NoPathFirstLeg(S, t, jid, rid) ==
  space_time_a_star(S, GRAPH, S.robots[rid].node, S.jobs[jid].pickup, t, rid,
                    MAX_SEARCH_DEPTH).kind = "none"

\* The iteration about to run finds no path for the head job and its nearest
\* idle robot.
HeadJobHasNoPath ==
  /\ allocator_alive
  /\ PendingJobs(Store) # <<>>
  /\ IdleRobots(Store) # <<>>
  /\ NoPathFirstLeg(AfterRelease(Store, now), now, Head(PendingJobs(Store)),
                    NearestIdle(Store, IdleRobots(Store), jobs[Head(PendingJobs(Store))].pickup))

\* Job j waits in the queue while some idle robot has a conflict-free two-leg
\* path for it.  The reservation table is empty, so the wait does not depend
\* on the time a reservation expires at.
WaitsWithPath(j) ==
  /\ allocator_alive
  /\ j \in DOMAIN jobs
  /\ jobs[j].status = "queued"
  /\ \E k \in 1..Len(job_queue) : job_queue[k] = j
  /\ DOMAIN reservations = {}
  /\ SomeIdleRobotHasPath(Store, now, j)

\* C18: under weak fairness of the allocator tick and robots that report the
\* completion of every job they receive, a queued job for which at every tick
\* some idle robot has a conflict-free two-leg path is eventually assigned: no
\* job waits with such a path for ever.
NoStarvation == \A j \in 1..MaxJobs : []<>(~WaitsWithPath(j))

\* The reply to a request of an unknown robot: an error, and the store as it
\* was.
Rejected(S, r) == r.code = 400 /\ r.S = S

\* The robot ids a request can name without the robot being registered,
\* the missing id (None) among them.
UnknownRobots(S) == (RobotIds \cup {None}) \ DOMAIN S.robots

\* C19: poll, update_location, report_execution and request_path called with
\* a robot id that is not registered return an error and leave the robot
\* table, job table, queue and reservation table unchanged.
UnknownRobotRejected ==
  \A rid \in UnknownRobots(Store) :
    /\ Rejected(Store, poll_task(Store, rid))
    /\ \A node \in ReportCells, dir \in Dirs :
         /\ \A status \in {None, "job_done"} :
              Rejected(Store, update_location(Store, now, rid, node, dir, status))
         /\ \A pickup \in PickupCells, drop \in DropCells :
              Rejected(Store, request_path(Store, now, rid, node, dir, pickup, drop))
         /\ \A jid \in (1..Len(jobs)) \cup {NoJob} :
              /\ Rejected(Store, report_execution(Store, rid, jid, <<>>))
              /\ Rejected(Store, report_execution(Store, rid, jid,
                                                  <<[node |-> node, dir |-> dir]>>))

\* One robot is registered and works on a job, the other id is unknown.
UnknownRobotBesideBusyOne ==
  /\ DOMAIN robots = {"r1"}
  /\ robots["r1"].status = "busy"
  /\ jobs # <<>>
  /\ DOMAIN reservations # {}

\* Robot rid has a published plan: it is busy with a job.
HasPlan(rid) ==
  /\ robots[rid].status = "busy"
  /\ robots[rid].current_job \in DOMAIN jobs

\* b is the head of an edge of the graph from a, and the direction of that edge.
IsEdge(a, b) == \E d \in DOMAIN GRAPH[a] : GRAPH[a][d] = b
EdgeDir(a, b) == CHOOSE d \in DOMAIN GRAPH[a] : GRAPH[a][d] = b

\* The command the turn rule gives for heading h and edge direction d.
RuleCommand(h, d) ==
  CASE h = d -> "S"
    [] CLOCKWISE[h] = d -> "R"
    [] CCW[h] = d -> "L"
    [] OPP[h] = d -> "U"

\* The translator's running heading when it comes to step i of the path: the
\* heading it returns for the first i cells.
RunningHeading(path, h, i) == path_to_instr_list(SubSeq(path, 1, i), h).cur

TurnRuleAt(path, plan, h, i) ==
  IsEdge(path[i], path[i + 1]) =>
    /\ plan[i][2] = RuleCommand(RunningHeading(path, h, i), EdgeDir(path[i], path[i + 1]))
    /\ RunningHeading(path, h, i + 1) = EdgeDir(path[i], path[i + 1])

TurnRule(path, plan, h) ==
  /\ Len(plan) = Len(path)
  /\ \A i \in 1..(Len(path) - 1) : TurnRuleAt(path, plan, h, i)

Scenario4Path == <<81, 71, 72, 73>>
Scenario4Plan == << <<81, "U">>, <<71, "R">>, <<72, "S">>, <<73, "D">> >>

WithoutWait(path, i) == SubSeq(path, 1, i) \o SubSeq(path, i + 2, Len(path))

\* Step i of the path is a wait: the command for it is S, the running heading
\* stays, and the translation goes on as for the path without the wait.
WaitIsStraightAt(path, plan, h, i) ==
  path[i] = path[i + 1] =>
    /\ plan[i][2] = "S"
    /\ RunningHeading(path, h, i + 1) = RunningHeading(path, h, i)
    /\ path_to_instr_list(path, h).cur = path_to_instr_list(WithoutWait(path, i), h).cur
    /\ SubSeq(path_to_instr_list(path, h).instrs, i + 1, Len(path) - 1)
         = SubSeq(path_to_instr_list(WithoutWait(path, i), h).instrs, i, Len(path) - 2)

\* C22: for a wait step of a published path (two successive identical cells)
\* the command is S and the running heading is unchanged, so the commands and
\* the final heading after the wait are those of the path without the wait.
WaitStepIsStraight ==
  \A rid \in DOMAIN robots :
    HasPlan(rid) =>
      \A i \in 1..(Len(jobs[robots[rid].current_job].path) - 1) :
        WaitIsStraightAt(jobs[robots[rid].current_job].path,
                         jobs[robots[rid].current_job].plan, robots[rid].dir, i)

\* The commands of a plan, its closing D left out.
PlanCommands(plan) == [i \in 1..(Len(plan) - 1) |-> plan[i][2]]

\* The heading a robot has after it obeyed the commands one by one.
RECURSIVE TurnByTurn(_, _)
TurnByTurn(h, cmds) ==
  IF cmds = <<>> THEN h ELSE TurnByTurn(apply_turn(h, Head(cmds)), Tail(cmds))

\* The first k commands applied to h give the translator's running heading
\* after k steps of the path.
PrefixReproduced(path, cmds, h, k) ==
  /\ apply_instrs_to_dir(h, SubSeq(cmds, 1, k)) = RunningHeading(path, h, k + 1)
  /\ TurnByTurn(h, SubSeq(cmds, 1, k)) = RunningHeading(path, h, k + 1)

HeadingReproduced(path, cmds, h) ==
  /\ Len(cmds) = Len(path) - 1
  /\ \A k \in 0..Len(cmds) : PrefixReproduced(path, cmds, h, k)
  /\ apply_instrs_to_dir(h, cmds) = path_to_instr_list(path, h).cur

\* C23 (L2): the commands of a published plan, applied to the heading the
\* translation started from, give the final heading the translator returns,
\* and every prefix of them gives the translator's running heading.
CommandsReproduceHeading ==
  \A rid \in DOMAIN robots :
    HasPlan(rid) =>
      HeadingReproduced(jobs[robots[rid].current_job].path,
                        PlanCommands(jobs[robots[rid].current_job].plan),
                        robots[rid].dir)

\* A published plan with a U-turn and a left turn, after which the robot
\* does not head where it started.
PlanWithTurns ==
  /\ HasPlan("r1")
  /\ \E i \in DOMAIN jobs[robots["r1"].current_job].plan :
       jobs[robots["r1"].current_job].plan[i][2] = "U"
  /\ \E i \in DOMAIN jobs[robots["r1"].current_job].plan :
       jobs[robots["r1"].current_job].plan[i][2] = "L"
  /\ apply_instrs_to_dir(robots["r1"].dir,
                         PlanCommands(jobs[robots["r1"].current_job].plan))
       # robots["r1"].dir

\* The plan has one entry per cell of the path, in order, and D as the
\* command of its last entry only.
PlanShape(path, plan) ==
  /\ Len(plan) = Len(path)
  /\ \A i \in 1..Len(plan) :
       /\ plan[i][1] = path[i]
       /\ plan[i][2] = "D" <=> i = Len(plan)

\* L1: the path [c] from heading h has the plan [(c, D)] and the final
\* heading h.
SingleCellPlan(path, plan, h) ==
  Len(path) = 1 =>
    /\ plan = << <<path[1], "D">> >>
    /\ path_to_instr_list(path, h) = [instrs |-> <<>>, cur |-> h]

\* C24: every published plan has exactly len(path) entries, entry i carries
\* cell path[i], the last command is D and no earlier one is; a single-cell
\* path [c] has the plan [(c, D)] with the heading unchanged.
PublishedPlanShape ==
  /\ \A j \in DOMAIN jobs :
       jobs[j].path # <<>> => PlanShape(jobs[j].path, jobs[j].plan)
  /\ \A rid \in DOMAIN robots :
       HasPlan(rid) => SingleCellPlan(jobs[robots[rid].current_job].path,
                                      jobs[robots[rid].current_job].plan,
                                      robots[rid].dir)

\* A plan for a robot that already stands on its goal: one entry, D.
SingleCellPublished ==
  /\ HasPlan("r1")
  /\ jobs[robots["r1"].current_job].path = <<robots["r1"].node>>
  /\ jobs[robots["r1"].current_job].plan = << <<robots["r1"].node, "D">> >>

\* The searches of a state: every registered robot, from the cell it stands on
\* to a cell around the junction 52, starting now or a second later.
PlannerCells == {52, 53, 62, 63}
PlannerTimes == {now, now + 1}

\* The reservation key (node, t) is free or owned by rid.
FreeOrOwn(table, node, t, rid) ==
  <<node, t>> \in DOMAIN table => table[<<node, t>>] = rid

\* Every cell of the path after the first is free or owned by rid at the time
\* the trajectory is reserved for.
PathRespectsReservations(S, p, t0, rid) ==
  \A i \in 2..Len(p) : FreeOrOwn(S.reservations, p[i], t0 + i - 1, rid)

\* P(path) for what the planner returns, when it returns a path.
ReservationSafe(S, r, t0, rid) ==
  r.kind = "path" => PathRespectsReservations(S, r.path, t0, rid)

\* C25: for every path the planner returns for robot rid from start time t0
\* and every index i >= 1, the key (path[i], t0 + i) is free or owned by rid
\* in the reservation table at planning time, also after a wait step.
PlannerRespectsReservations ==
  \A rid \in DOMAIN robots, end \in PlannerCells, t0 \in PlannerTimes :
    ReservationSafe(Store,
                    space_time_a_star(Store, GRAPH, robots[rid].node, end, t0, rid,
                                      MAX_SEARCH_DEPTH),
                    t0, rid)

(***************************************************************************)
(* The planner and standing robots.                                        *)
(***************************************************************************)
SquareGoals == {22, 32, 33}

\* The cells on which a robot other than rid stands with status idle.
IdleCells(S, rid) ==
  {S.robots[orid].node :
     orid \in {x \in DOMAIN S.robots : x # rid /\ S.robots[x].status = "idle"}}

PathAvoids(p, cells) == \A i \in 2..Len(p) : p[i] \notin cells

AvoidsIdle(S, r, rid) == r.kind = "path" => PathAvoids(r.path, IdleCells(S, rid))

PlannedFromOwnCell(rid, end) ==
  space_time_a_star(Store, GRAPH, robots[rid].node, end, now, rid, MAX_SEARCH_DEPTH)

\* C26: no path the planner returns for a robot holds, after its first cell,
\* a cell on which another robot stands with status idle at planning time.
PlannerAvoidsIdleRobots ==
  \A rid \in DOMAIN robots, end \in SquareGoals :
    AvoidsIdle(Store, PlannedFromOwnCell(rid, end), rid)

\* C26 witness: r2 stands idle on 22, the first cell of the route
\* 21 -> 22 -> 32, and the planner takes r1 round it by 31.
DetourRoundIdleRobot ==
  /\ {"r1", "r2"} \subseteq DOMAIN robots
  /\ robots["r1"].node = 21
  /\ robots["r2"].node = 22
  /\ robots["r2"].status = "idle"
  /\ PlannedFromOwnCell("r1", 32) = Found(<<21, 31, 32>>)

(***************************************************************************)
(* The shape of the paths the planner returns.                             *)
(***************************************************************************)
WellFormedPath(p, start, goal) ==
  /\ p # <<>>
  /\ p[1] = start
  /\ p[Len(p)] = goal
  /\ \A i \in 1..(Len(p) - 1) : p[i + 1] = p[i] \/ IsEdge(p[i], p[i + 1])

WellFormed(r, start, goal) == r.kind = "path" => WellFormedPath(r.path, start, goal)

\* C27: every path the planner returns starts at start, ends at goal, and
\* each successive pair of cells is a directed edge of the graph or the same
\* cell twice.
PlannerPathsWellFormed ==
  \A rid \in DOMAIN robots, end \in PlannerCells, t0 \in PlannerTimes :
    WellFormed(space_time_a_star(Store, GRAPH, robots[rid].node, end, t0, rid,
                                 MAX_SEARCH_DEPTH),
               robots[rid].node, end)

\* C27 witness: cell 52 is reserved for the next second, and the path
\* returned from the dead end 62 waits one step and then takes the edge.
PathWithWaitAndEdge ==
  \E rid \in DOMAIN robots :
    /\ robots[rid].node = 62
    /\ ReservationOwner(reservations, 52, (now + 1) * 10) \notin {None, rid}
    /\ PlannedFromOwnCell(rid, 52) = Found(<<62, 62, 52>>)

(***************************************************************************)
(* The depth bound of the planner.                                         *)
(***************************************************************************)
\* Goals one, two, three and four steps from 21.
BoundGoals == {22, 32, 33, 43}

Steps(p) == Len(p) - 1

WithinBound(r, max_time) ==
  /\ r.kind \in {"path", "none"}
  /\ r.kind = "path" => Steps(r.path) <= max_time

\* C28: on known cells the planner ends with a path or with None, and a path
\* it returns has at most max_time steps.
PlannerStopsWithinBound ==
  \A rid \in DOMAIN robots, end \in BoundGoals :
    WithinBound(PlannedFromOwnCell(rid, end), MAX_SEARCH_DEPTH)

\* C28 witness: from 21 the planner returns a path of exactly max_time steps
\* to 33, and None for 43, which is one step further.
PathAtTheBoundAndNoneBeyond ==
  \E rid \in DOMAIN robots :
    /\ robots[rid].node = 21
    /\ PlannedFromOwnCell(rid, 33).kind = "path"
    /\ Steps(PlannedFromOwnCell(rid, 33).path) = MAX_SEARCH_DEPTH
    /\ PlannedFromOwnCell(rid, 43).kind = "none"

(***************************************************************************)
(* The cleanup of old reservations at the head of an allocator pass.       *)
(***************************************************************************)
PastKeys(table, t) == {k \in DOMAIN table : k[2] < t}

Restrict(table, keys) == [k \in keys |-> table[k]]

\* The entries of table that are not in the past at t.
NotPast(table, t) == Restrict(table, DOMAIN table \ PastKeys(table, t))

\* C29: the table an allocator pass at time now leaves holds no entry with a
\* time before now, and the cleanup of the pass takes away no entry with a
\* time of now or later.
AllocatorCollectsThePast ==
  /\ PastKeys(allocator_loop(Store, now).S.reservations, now) = {}
  /\ ReleaseBeforeTime(reservations, now) = NotPast(reservations, now)

\* C29 witness: the table holds an entry of the past second and one of the
\* current second, and the pass leaves the second without the first.
PastAndPresentEntries ==
  \E old \in PastKeys(reservations, now), new \in DOMAIN reservations :
    /\ allocator_alive
    /\ new[2] >= now
    /\ old \notin DOMAIN allocator_loop(Store, now).S.reservations
    /\ new \in DOMAIN allocator_loop(Store, now).S.reservations

(***************************************************************************)
(* The release of a robot's reservations by report_execution.              *)
(***************************************************************************)
OwnedBy(table, rid) == {k \in DOMAIN table : table[k] = rid}

OwnersOf(table) == {table[k] : k \in DOMAIN table}

\* after holds nothing of rid, and of every other owner what before holds.
ReleasedWithFrame(before, after, rid) ==
  /\ OwnedBy(after, rid) = {}
  /\ \A other \in (OwnersOf(before) \cup OwnersOf(after)) \ {rid} :
       Restrict(after, OwnedBy(after, other)) = Restrict(before, OwnedBy(before, other))

ReportsOf(rid) ==
  {report_execution(Store, rid, jid, nodes_with_dir) :
     jid \in (1..Len(jobs)) \cup {NoJob},
     nodes_with_dir \in {<<>>} \cup {<<[node |-> c, dir |-> d]>> :
                                       c \in ExecutedCells, d \in Dirs}}

\* C30: after report_execution by a robot the table holds no entry the robot
\* owns, and every entry another robot owns is as it was.
ReportReleasesOwnReservations ==
  \A rid \in DOMAIN robots : \A r \in ReportsOf(rid) :
    ReleasedWithFrame(reservations, r.S.reservations, rid)

\* C30 witness: r1 and r2 both hold reservations, and the report of r1
\* takes the entries of r1 away and leaves those of r2.
ReportBesideAnotherOwner ==
  /\ OwnedBy(reservations, "r1") # {}
  /\ OwnedBy(reservations, "r2") # {}
  /\ \A r \in ReportsOf("r1") :
       DOMAIN r.S.reservations = OwnedBy(reservations, "r2")

(***************************************************************************)
(* The life of the allocator thread.                                       *)
(***************************************************************************)
\* C33: whatever the clients send, every pass of the allocator loop comes to
\* its end and the thread goes on to the next pass: the allocator thread is
\* alive in every reachable state.
AllocatorNeverStops == allocator_alive

(***************************************************************************)
(* The completion protocol of the simulated robots: update_location with   *)
(* status job_done, then report_execution for the finished job.            *)
(***************************************************************************)
\* The store after the update_location of the protocol.
AfterDoneUpdate(S, t, rid, node, dir) ==
  update_location(S, t, rid, node, dir, "job_done").S

\* The store after the report_execution that follows it.
AfterDoneReport(S, U, rid, node, dir) ==
  report_execution(U, rid, S.robots[rid].current_job,
                   <<[node |-> node, dir |-> dir]>>).S

OwnsTrajectory(table, path, t0, rid) ==
  \A k \in TrajectoryKeys(path, t0) : k \in DOMAIN table /\ table[k] = rid

\* In R the robot polls the job park of U and owns the trajectory of its path.
ParkingSurvives(U, R, rid, park) ==
  /\ poll_task(R, rid).job = park
  /\ OwnsTrajectory(R.reservations, U.jobs[park].path, U.jobs[park].t0, rid)

\* The robot is busy with a job whose drop cell is node: the D step of the
\* plan is executed there.
FinishesJobOn(S, rid, node) ==
  /\ S.robots[rid].status = "busy"
  /\ S.robots[rid].current_job \in DOMAIN S.jobs
  /\ S.jobs[S.robots[rid].current_job].drop = node

\* U is the store after the update, park the job the robot holds in U.
ProtocolKeepsParking(S, U, rid, node, dir, park) ==
  (FinishesJobOn(S, rid, node) /\ park # NoJob)
    => ParkingSurvives(U, AfterDoneReport(S, U, rid, node, dir), rid, park)

ProtocolFrom(S, U, rid, node, dir) ==
  ProtocolKeepsParking(S, U, rid, node, dir, U.robots[rid].current_job)

\* C34: a robot that ends a job on a cell that is no parking cell by
\* update_location(job_done) followed by report_execution for that job, and
\* for which an auto-park job was planned, polls the auto-park job next and
\* still owns the reservations of the parking path.
CompletionProtocolParks ==
  \A rid \in DOMAIN robots, node \in ParkingReportCells \ PARKING_NODES, dir \in Dirs :
    ProtocolFrom(Store, AfterDoneUpdate(Store, now, rid, node, dir), rid, node, dir)

(***************************************************************************)
(* Jobs, robots and reservations that belong together.                     *)
(***************************************************************************)
WorkedOn(j) ==
  /\ jobs[j].assigned_robot \in DOMAIN robots
  /\ robots[jobs[j].assigned_robot].status = "busy"
  /\ robots[jobs[j].assigned_robot].current_job = j

\* C35: every job with status assigned has an assigned robot that is busy
\* and whose current job is that job.
AssignedJobIsWorkedOn ==
  \A j \in DOMAIN jobs : jobs[j].status = "assigned" => WorkedOn(j)

\* C37: a robot with status idle owns no entry of the reservation table.
IdleRobotOwnsNothing ==
  \A rid \in DOMAIN robots :
    robots[rid].status = "idle" => OwnedBy(reservations, rid) = {}

InQueue(j) == \E i \in 1..Len(job_queue) : job_queue[i] = j

\* C38: every job with status queued is in the job queue.
QueuedJobIsInQueue ==
  \A j \in DOMAIN jobs : jobs[j].status = "queued" => InQueue(j)

(***************************************************************************)
(* Whose job a report may close.                                           *)
(***************************************************************************)
JobsLeftAlone(rid, r) ==
  \A j \in DOMAIN jobs : j # robots[rid].current_job => r.S.jobs[j] = jobs[j]

\* C36: report_execution sent by a robot changes only the job the robot is
\* working on: a job that is queued, failed or assigned to another robot is
\* after the report as it was before.
ReportTouchesOwnJobOnly ==
  \A rid \in DOMAIN robots : \A r \in ReportsOf(rid) : JobsLeftAlone(rid, r)

(***************************************************************************)
(* Two robots sent to one parking cell.                                    *)
(***************************************************************************)
\* Robot rid is busy on an assigned job that ends on a parking cell.  Clients
\* submit no job to a parking cell here, so such a job is an auto-park job.
ParkingAt(rid, p) ==
  /\ robots[rid].status = "busy"
  /\ robots[rid].current_job \in DOMAIN jobs
  /\ jobs[robots[rid].current_job].status = "assigned"
  /\ jobs[robots[rid].current_job].assigned_robot = rid
  /\ jobs[robots[rid].current_job].drop = p

\* C40: no two robots hold assigned auto-park jobs with the same parking
\* cell as drop.
ParkingCellsNotShared ==
  \A a \in DOMAIN robots, b \in DOMAIN robots, p \in PARKING_NODES :
    (ParkingAt(a, p) /\ ParkingAt(b, p)) => a = b

(***************************************************************************)
(* Two robots that change places.                                          *)
(***************************************************************************)
\* The robot is busy on an assigned job with a path.
HasTrajectory(rid) ==
  /\ robots[rid].status = "busy"
  /\ robots[rid].current_job \in DOMAIN jobs
  /\ jobs[robots[rid].current_job].status = "assigned"
  /\ jobs[robots[rid].current_job].path # <<>>

TrajectoryOf(rid) == jobs[robots[rid].current_job].path
StartOf(rid) == jobs[robots[rid].current_job].t0

\* The seconds t such that the trajectory of rid has a cell at t and at t + 1.
MovesOf(rid) == StartOf(rid)..(StartOf(rid) + Len(TrajectoryOf(rid)) - 2)

CellAt(rid, t) == TrajectoryOf(rid)[t - StartOf(rid) + 1]

SwapAt(a, b, t) ==
  /\ CellAt(a, t) # CellAt(a, t + 1)
  /\ CellAt(a, t) = CellAt(b, t + 1)
  /\ CellAt(a, t + 1) = CellAt(b, t)

\* C39: no two busy robots have trajectories that change places within one
\* second: a on x at t and on y at t + 1 while b is on y at t and on x at
\* t + 1.
NoSwapOfCells ==
  \A a \in DOMAIN robots, b \in DOMAIN robots :
    (a # b /\ HasTrajectory(a) /\ HasTrajectory(b)) =>
      \A t \in MovesOf(a) \cap MovesOf(b) : ~ SwapAt(a, b, t)

(***************************************************************************)
(* The lock, the state writes and the broadcasts.                          *)
(***************************************************************************)
\* A thread that still has an event to emit holds the lock.
EmitsUnderLock ==
  \A t \in Threads : pc[t].at = "emit" => state_lock = t

SameOperation(i, k) ==
  events[i].by = events[k].by /\ events[i].n = events[k].n

WriteAt(i) == events[i].what = "write"
EmitOf(i, k) == events[k].what = "emit" /\ SameOperation(i, k)

\* Two operations emit in the order in which they wrote.
BroadcastOrderIsWriteOrder ==
  \A i \in DOMAIN events, j \in DOMAIN events :
    (WriteAt(i) /\ WriteAt(j) /\ i < j) =>
      \A k \in DOMAIN events, l \in DOMAIN events :
        (EmitOf(i, k) /\ EmitOf(j, l)) => k < l

\* C31: every operation emits its events while it still holds state_lock, so
\* that any two operations emit in the order of their state writes, also
\* register_robot and submit_job beside a pass of the allocator.
BroadcastsUnderLock == EmitsUnderLock /\ BroadcastOrderIsWriteOrder

InsideBlock(t) == pc[t].at \in {"locked", "exit"}

\* C32: state_lock is held only by a thread that is inside its with block,
\* which it leaves on every path (end of the block, early return, return
\* for no path, exception): no thread at rest, after its block or dead holds
\* the lock, and a thread inside its block is the holder.
LockHeldOnlyInsideBlock ==
  /\ state_lock \in Threads \cup {None}
  /\ \A t \in Threads : state_lock = t <=> InsideBlock(t)

\* C32 witness: the allocator thread has ended with an exception inside its
\* block, and afterwards a request thread has taken the lock and is leaving
\* its block by the early return for an unknown robot.
LockTakenAfterFailedPass ==
  /\ pc["allocator"].at = "dead"
  /\ \E h \in Handlers :
       state_lock = h /\ pc[h].at = "exit" /\ pc[h].how = "early"

=============================================================================
